---- MODULE Spec2Model ----
(***************************************************************************)
(* A model of the Alloy procurement demo: the Express server's POST        *)
(* endpoints and the Locus payment executor (server/index.ts,              *)
(* server/services/paymentExecutor.ts) and the React front end's screens   *)
(* (App.tsx, PrioritiesChat, SourcingPipeline, RFQSpecGeneration,          *)
(* ProcurementPlan, ApprovalExecution).                                    *)
(*                                                                         *)
(* Money is counted in cents, cost multipliers in millionths, and a JS     *)
(* string is a sequence of one-character strings (quantities) or of        *)
(* lexical tokens (model output).                                          *)
(***************************************************************************)
EXTENDS Integers, Sequences, FiniteSets, TLC

\* ------------------------------------------------------------------ bounds
MaxPlanLen == 2
MaxMessages == 2
MaxToks == 2

\* ------------------------------------------------------- program constants
TEST_WALLET_ADDRESS == "0x8527a8f999edac78f3bd40f706a1554a0e602858"
TEST_AMOUNT_PER_VENDOR == 1

VARIABLES
    \* ---- server: process environment and one request being handled
    env,               \* process.env: the two API keys and USE_RETRY_LOGIC
    srvPc,             \* where the handler of the current request stands
    endpoint,          \* the route of the current request
    body,              \* req.body (req.file for the upload route)
    services,          \* backing services the handler has invoked
    transfers,         \* send_to_address requests issued for this request
    toolResult,        \* sendPaymentToAddress: let toolResult
    transactionHash,   \* sendPaymentToAddress: let transactionHash
    nMessages,         \* messages the query() stream has delivered
    paymentResult,     \* index.ts: const result = await executePaymentsWithLocus(plan)
    resStatus,         \* HTTP status answered (0: none yet)
    resBody            \* JSON body answered

srvVars == <<env, srvPc, endpoint, body, services, transfers, toolResult,
             transactionHash, nMessages, paymentResult, resStatus, resBody>>

VARIABLES
    \* ---- App.tsx: useState of the top-level container
    currentScreen,
    procurementPlan,
    extractedComponents,
    bomEstimate,
    priorities,
    spendingLimit,
    selectedVendors,
    sourcingData,
    orders,
    \* ---- history: how the current screen was entered
    navVia,
    testMode,          \* the page was opened with ?test=sourcing, effect not yet run
    \* ---- EngineeringAssetUpload
    uploaded,
    processing,
    fileData,
    \* ---- PrioritiesChat
    selectedPriorities,
    editableComponents,
    spendingLimitInput,  \* useState<string> spendingLimit
    adjustedRanges,      \* the useMemo value, with its costMultiplier
    \* ---- SourcingPipeline
    loading,
    error,
    srcSourcingData,     \* useState sourcingData of the component
    srcSelectedVendors,  \* useState selectedVendors of the component
    \* ---- ApprovalExecution
    confirmations,
    isExecuting,
    shownHash,           \* useState transactionHash
    status,
    executionStep,
    \* ---- handleExecute calls and their timers that have not finished
    execs

appVars == <<currentScreen, procurementPlan, extractedComponents, bomEstimate,
             priorities, spendingLimit, selectedVendors, sourcingData, orders,
             navVia, testMode>>
uploadVars == <<uploaded, processing, fileData>>
prioVars == <<selectedPriorities, editableComponents, spendingLimitInput, adjustedRanges>>
sourcingVars == <<loading, error, srcSourcingData, srcSelectedVendors>>
approvalVars == <<confirmations, isExecuting, shownHash, status, executionStep>>
uiVars == <<appVars, uploadVars, prioVars, sourcingVars, approvalVars, execs>>

VARIABLES
    \* ---- one call of withRetry (utils/retry.ts)
    USE_RETRY_LOGIC,   \* process.env.USE_RETRY_LOGIC
    maxRetries,
    initialDelay,
    retryPc,
    retryI,            \* the loop variable i
    attempts,          \* how each call of fn ended, in order
    delays,            \* the setTimeout delays awaited, in order
    retryOutcome

retryVars == <<USE_RETRY_LOGIC, maxRetries, initialDelay, retryPc, retryI, attempts,
               delays, retryOutcome>>

VARIABLES
    \* ---- one POST /api/source-vendors that passed validation, in sourceVendors
    USE_FIRECRAWL,           \* process.env.USE_FIRECRAWL
    USE_STRUCTURED_OUTPUTS,  \* process.env.USE_STRUCTURED_OUTPUTS
    ANTHROPIC_API_KEY,
    svcComponents,           \* request.components
    svcPc,
    svcI,                    \* the loop variable i, counted from 1
    componentSearches,
    modelCalls,              \* the anthropic.messages.create calls, in order of start
    svcStatus,               \* HTTP status of the response, 0 before it
    svcBody

svcVars == <<USE_FIRECRAWL, USE_STRUCTURED_OUTPUTS, ANTHROPIC_API_KEY, svcComponents,
             svcPc, svcI, componentSearches, modelCalls, svcStatus, svcBody>>

VARIABLES
    \* ---- one call of searchVendorsForComponentWithFirecrawl
    FIRECRAWL_API_KEY,
    fcPc,
    vendorUrls,
    scrapes,           \* the scrapeVendorWebsite promises raced with the timeout
    scrapedData,
    discovery,         \* how the try block of lines 97-126 ended
    fcResult

fcVars == <<FIRECRAWL_API_KEY, fcPc, vendorUrls, scrapes, scrapedData, discovery, fcResult>>

VARIABLE
    \* ---- the payment network: the plans whose send_to_address was carried
    \* out for the payment requests of the browser session, in order
    walletTransfers

\* the utilities and services modelled on their own, and the network
libVars == <<retryVars, svcVars, fcVars, walletTransfers>>

\* what a handler of the server leaves alone, and what one of the front end does
nonServerVars == <<uiVars, libVars>>
backendVars == <<srvVars, libVars>>

vars == <<srvVars, uiVars, libVars>>

\* =========================================================================
\* JavaScript values of the request bodies
\* =========================================================================
Missing == [t |-> "undefined"]
Null == [t |-> "null"]
Str(s) == [t |-> "string", v |-> s]
Num(n) == [t |-> "number", v |-> n]
Arr(a) == [t |-> "array", v |-> a]
Obj(o) == [t |-> "object", v |-> o]

\* !x
Falsy(x) ==
    \/ x.t \in {"undefined", "null"}
    \/ x.t = "string" /\ x.v = <<>>
    \/ x.t = "number" /\ x.v = 0

IsArray(x) == x.t = "array"

\* typeof x
TypeOf(x) ==
    CASE x.t = "undefined" -> "undefined"
      [] x.t = "string" -> "string"
      [] x.t = "number" -> "number"
      [] OTHER -> "object"

RECURSIVE SeqsUpTo(_, _)
SeqsUpTo(S, n) ==
    IF n = 0 THEN {<<>>}
    ELSE LET shorter == SeqsUpTo(S, n - 1)
         IN shorter \cup {Append(s, x) : s \in {q \in shorter : Len(q) = n - 1}, x \in S}

Range(s) == {s[i] : i \in DOMAIN s}

\* =========================================================================
\* Server: request bodies the client can send
\* =========================================================================
Vendors == {"Acme", "TechParts"}
ItemCosts == {[pricePerUnit |-> 1000, quantity |-> 1], [pricePerUnit |-> 2500, quantity |-> 3]}

\* ProcurementItem as the payment executor reads it; null stands for an
\* array element that is no object
PlanItems ==
    {[t |-> "object", vendor |-> v, pricePerUnit |-> c.pricePerUnit, quantity |-> c.quantity] :
        v \in Vendors, c \in ItemCosts} \cup {Null}

PaymentBodies ==
    {[plan |-> p] : p \in {Missing, Null, Str(<<"p">>), Obj(<<>>)}
                         \cup {Arr(a) : a \in SeqsUpTo(PlanItems, MaxPlanLen)}}

SourcingBodies ==
    [components : {Missing, Str(<<"c">>), Arr(<<>>), Arr(<<"motor">>)},
     spendingLimit : {Missing, Str(<<"1">>), Num(-5), Num(0), Num(2500)},
     priorities : {Missing, Null, Str(<<"c">>), Arr(<<>>), Obj(<<"cost">>)}]

EmailBodies ==
    [to : {Missing, Str(<<"a">>), Arr(<<>>), Arr(<<"vendor">>)},
     subject : {Missing, Str(<<>>), Str(<<"s">>)},
     textPart : {Missing, Str(<<"t">>)},
     htmlPart : {Missing, Str(<<"h">>)}]

UploadBodies == [file : {Missing, Obj(<<"design">>)}]

\* errors a rejected promise can carry: an Anthropic.APIError with its
\* status, or any other Error
ThrownErrors ==
    {[api |-> TRUE, status |-> 429], [api |-> TRUE, status |-> 500],
     [api |-> TRUE, status |-> 400], [api |-> FALSE, status |-> 0]}

\* =========================================================================
\* Server: strings of model output as token sequences
\*   "hash"  0x followed by exactly 64 hex digits
\*   "word"  any other text without white space
\*   "sp"    white space
\* =========================================================================
Tokens == {"hash", "word", "sp"}
Strings == SeqsUpTo(Tokens, MaxToks)

\* s.match(/0x[a-fA-F0-9]{64}/): the first match, or null
RECURSIVE Match(_)
Match(s) ==
    IF s = <<>> THEN Null
    ELSE IF Head(s) = "hash" THEN Str(<<"hash">>)
    ELSE Match(Tail(s))

RECURSIVE TrimStart(_)
TrimStart(s) == IF s # <<>> /\ Head(s) = "sp" THEN TrimStart(Tail(s)) ELSE s

RECURSIVE TrimEnd(_)
TrimEnd(s) ==
    IF s # <<>> /\ s[Len(s)] = "sp" THEN TrimEnd(SubSeq(s, 1, Len(s) - 1)) ELSE s

\* s.trim()
Trim(s) == TrimEnd(TrimStart(s))

\* objects a tool or the agent can return: at most one of the three fields
HashFields == {"transactionHash", "txHash", "transaction_id"}
NoFields == [f \in HashFields |-> Missing]
FieldValues == {Str(<<>>), Str(<<"hash">>), Str(<<"word">>)}
ResultObjects ==
    {Obj(NoFields)} \cup {Obj([NoFields EXCEPT ![f] = x]) : f \in HashFields, x \in FieldValues}
ResultValues == {Null} \cup {Str(s) : s \in Strings} \cup ResultObjects

\* result?.f
Field(x, f) == IF x.t = "object" THEN x.v[f] ELSE Missing

\* String(result) of a value that is no string
JsString(x) == Str(<<"word">>)

\* lines 248-256 and 265-271: a string is searched for a hash, else trimmed
FromString(s) == IF Match(s) # Null THEN Match(s) ELSE Str(Trim(s))

\* sendPaymentToAddress, the branch for a result message of subtype success:
\* the value left in transactionHash
ExtractHash(result, tool, prev) ==
    IF result.t = "string" THEN FromString(result.v)
    ELSE IF ~Falsy(Field(result, "transactionHash")) THEN Field(result, "transactionHash")
    ELSE IF ~Falsy(Field(result, "txHash")) THEN Field(result, "txHash")
    ELSE IF ~Falsy(Field(result, "transaction_id")) THEN Field(result, "transaction_id")
    ELSE IF ~Falsy(tool) THEN
        IF tool.t = "string" THEN FromString(tool.v)
        ELSE IF ~Falsy(Field(tool, "transactionHash")) THEN Field(tool, "transactionHash")
        ELSE IF ~Falsy(Field(tool, "txHash")) THEN Field(tool, "txHash")
        ELSE prev
    ELSE JsString(result)


\* =========================================================================
\* Server: the handlers of server/index.ts
\* =========================================================================
NoBody == [none |-> TRUE]

\* a request arrives; requests share no state, so a behaviour follows one
Fresh(route, b) ==
    /\ srvPc = "idle"
    /\ endpoint' = route
    /\ body' = b
    /\ transfers' = <<>>
    /\ toolResult' = Null
    /\ transactionHash' = Null
    /\ nMessages' = 0
    /\ UNCHANGED <<nonServerVars, env>>

\* executePaymentsWithLocus has not returned
Pending == [pending |-> TRUE]
\* executePaymentsWithLocus threw
Threw(msg) == [threw |-> msg]

Respond(code, json) ==
    /\ resStatus' = code
    /\ resBody' = json
    /\ srvPc' = "done"

\* mutant: the length test of line 181 left out
PlanRejected_noLength(plan) == Falsy(plan) \/ ~IsArray(plan)

\* index.ts line 181
PlanRejected(plan) == Falsy(plan) \/ ~IsArray(plan) \/ Len(plan.v) = 0

\* index.ts lines 80, 84 and 88
ComponentsRejected(c) == Falsy(c) \/ ~IsArray(c) \/ Len(c.v) = 0
SpendingLimitRejected(l) == TypeOf(l) # "number" \/ l.v <= 0
PrioritiesRejected(p) == Falsy(p) \/ TypeOf(p) # "object"

\* index.ts lines 121 and 125
RecipientsRejected(to) == Falsy(to) \/ ~IsArray(to) \/ Len(to.v) = 0
PartsRejected(b) == Falsy(b.subject) \/ Falsy(b.textPart) \/ Falsy(b.htmlPart)

\* executePaymentsWithLocus, lines 307-312: the message thrown, or "" for none
MissingKey ==
    IF ~env.LOCUS_API_KEY THEN "LOCUS_API_KEY environment variable is not set"
    ELSE IF ~env.ANTHROPIC_API_KEY THEN "ANTHROPIC_API_KEY environment variable is not set"
    ELSE ""

\* mutant: index.ts answers without the test of result.success
PaymentFailed_unchecked(msg) ==
    LET result == [success |-> FALSE, transactionHashes |-> <<>>,
                   errors |-> <<msg>>, simulated |-> FALSE]
    IN /\ paymentResult' = result
       /\ Respond(200, result)

\* the catch of executePaymentsWithLocus (lines 349-359) followed by
\* index.ts lines 189-194
PaymentFailed(msg) ==
    LET result == [success |-> FALSE, transactionHashes |-> <<>>,
                   errors |-> <<msg>>, simulated |-> FALSE]
    IN /\ paymentResult' = result
       /\ Respond(500, [error |-> "Payment execution failed", details |-> result.errors])

\* Array.from(new Set(plan.map(item => item.vendor)))
UniqueVendors(plan) == {plan[i].vendor : i \in DOMAIN plan}

\* POST /api/execute-payment up to its first await
PostExecutePayment(b) ==
    /\ Fresh("/api/execute-payment", b)
    /\ IF PlanRejected(b.plan)
       THEN /\ Respond(400, [error |-> "Procurement plan is required"])
            /\ services' = {}
            /\ paymentResult' = Pending
       ELSE /\ services' = {"executePaymentsWithLocus"}
            /\ IF MissingKey # ""
               THEN /\ paymentResult' = Threw(MissingKey)
                    /\ Respond(500, [error |-> "Failed to execute payment",
                                     message |-> MissingKey])
               ELSE IF \E i \in DOMAIN b.plan.v : b.plan.v[i] = Null
               THEN PaymentFailed("Cannot read properties of null")
               ELSE /\ srvPc' = "getPaymentContext"
                    /\ paymentResult' = Pending
                    /\ resStatus' = 0
                    /\ resBody' = NoBody

\* the one query() of sendPaymentToAddress, lines 235-238
IssueSend(address, amount, vendorCount) ==
    /\ transfers' = Append(transfers, [address |-> address, amount |-> amount,
                                       vendors |-> vendorCount])
    /\ toolResult' = Null
    /\ transactionHash' = Null
    /\ nMessages' = 0
    /\ srvPc' = "sendPaymentToAddress"
    /\ UNCHANGED <<paymentResult, resStatus, resBody>>

\* mutant: one cent per plan item instead of per distinct vendor
PaymentContextReturns_perItem ==
    /\ srvPc = "getPaymentContext"
    /\ LET testAmount == Len(body.plan.v) * TEST_AMOUNT_PER_VENDOR
       IN IssueSend(TEST_WALLET_ADDRESS, testAmount, Len(body.plan.v))
    /\ UNCHANGED <<nonServerVars, env, endpoint, body, services>>

\* getPaymentContext() returns: lines 324-339
PaymentContextReturns ==
    /\ srvPc = "getPaymentContext"
    /\ LET vendors == UniqueVendors(body.plan.v)
           testAmount == Cardinality(vendors) * TEST_AMOUNT_PER_VENDOR
       IN IssueSend(TEST_WALLET_ADDRESS, testAmount, Cardinality(vendors))
    /\ UNCHANGED <<nonServerVars, env, endpoint, body, services>>

\* getPaymentContext() throws
PaymentContextThrows(e) ==
    /\ srvPc = "getPaymentContext"
    /\ PaymentFailed("Error getting payment context")
    /\ UNCHANGED <<nonServerVars, env, endpoint, body, services, transfers, toolResult,
                   transactionHash, nMessages>>

\* sendPaymentToAddress: a message of type tool_result, lines 240-242
SendToolResult(r) ==
    /\ srvPc = "sendPaymentToAddress"
    /\ nMessages < MaxMessages
    /\ toolResult' = r
    /\ nMessages' = nMessages + 1
    /\ UNCHANGED <<nonServerVars, env, srvPc, endpoint, body, services, transfers,
                   transactionHash, paymentResult, resStatus, resBody>>

\* sendPaymentToAddress: a message of type result, subtype success
SendResult(r) ==
    /\ srvPc = "sendPaymentToAddress"
    /\ nMessages < MaxMessages
    /\ transactionHash' = ExtractHash(r, toolResult, transactionHash)
    /\ nMessages' = nMessages + 1
    /\ UNCHANGED <<nonServerVars, env, srvPc, endpoint, body, services, transfers,
                   toolResult, paymentResult, resStatus, resBody>>

\* sendPaymentToAddress: a message of type error_during_execution
SendErrorDuringExecution ==
    /\ srvPc = "sendPaymentToAddress"
    /\ nMessages < MaxMessages
    /\ PaymentFailed("Error sending payment")
    /\ UNCHANGED <<nonServerVars, env, endpoint, body, services, transfers, toolResult,
                   transactionHash, nMessages>>

\* mutant: sendPaymentToAddress wrapped in withRetry, which calls it again
\* after a 429 or 5xx while USE_RETRY_LOGIC is set
SendThrows_withRetry(e) ==
    /\ srvPc = "sendPaymentToAddress"
    /\ IF env.USE_RETRY_LOGIC /\ e.api /\ (e.status = 429 \/ e.status >= 500)
          /\ Len(transfers) < 3
       THEN /\ IssueSend(transfers[1].address, transfers[1].amount, transfers[1].vendors)
            /\ UNCHANGED <<nonServerVars, env, endpoint, body, services>>
       ELSE /\ PaymentFailed("query failed")
            /\ UNCHANGED <<nonServerVars, env, endpoint, body, services, transfers, toolResult,
                           transactionHash, nMessages>>

\* the query() of sendPaymentToAddress rejects: lines 293-296, the error
\* reaches the catch of executePaymentsWithLocus
SendThrows(e) ==
    /\ srvPc = "sendPaymentToAddress"
    /\ PaymentFailed("query failed")
    /\ UNCHANGED <<nonServerVars, env, endpoint, body, services, transfers, toolResult,
                   transactionHash, nMessages>>

\* the stream of sendPaymentToAddress ends: lines 288-292, then lines
\* 341-348 and index.ts lines 189-198
SendStreamEnds ==
    /\ srvPc = "sendPaymentToAddress"
    /\ IF Falsy(transactionHash)
       THEN PaymentFailed("No transaction hash returned from payment")
       ELSE LET result == [success |-> TRUE, transactionHashes |-> <<transactionHash>>,
                           simulated |-> FALSE]
            IN paymentResult' = result /\ Respond(200, result)
    /\ UNCHANGED <<nonServerVars, env, endpoint, body, services, transfers, toolResult,
                   transactionHash, nMessages>>

\* POST /api/source-vendors up to its await
PostSourceVendors(b) ==
    /\ Fresh("/api/source-vendors", b)
    /\ paymentResult' = Pending
    /\ IF ComponentsRejected(b.components)
       THEN Respond(400, [error |-> "Components array is required"]) /\ services' = {}
       ELSE IF SpendingLimitRejected(b.spendingLimit)
       THEN Respond(400, [error |-> "Valid spending limit is required"]) /\ services' = {}
       ELSE IF PrioritiesRejected(b.priorities)
       THEN Respond(400, [error |-> "Priorities object is required"]) /\ services' = {}
       ELSE /\ services' = {"sourceVendors"}
            /\ srvPc' = "service"
            /\ resStatus' = 0
            /\ resBody' = NoBody

\* POST /api/send-email up to its await
PostSendEmail(b) ==
    /\ Fresh("/api/send-email", b)
    /\ paymentResult' = Pending
    /\ IF RecipientsRejected(b.to)
       THEN Respond(400, [error |-> "Recipients array is required"]) /\ services' = {}
       ELSE IF PartsRejected(b)
       THEN Respond(400, [error |-> "Subject, textPart, and htmlPart are required"])
            /\ services' = {}
       ELSE /\ services' = {"sendEmail"}
            /\ srvPc' = "service"
            /\ resStatus' = 0
            /\ resBody' = NoBody

\* POST /api/upload-design up to its await
PostUploadDesign(b) ==
    /\ Fresh("/api/upload-design", b)
    /\ paymentResult' = Pending
    /\ IF Falsy(b.file)
       THEN Respond(400, [error |-> "No file uploaded"]) /\ services' = {}
       ELSE /\ services' = {"processDesignFile"}
            /\ srvPc' = "service"
            /\ resStatus' = 0
            /\ resBody' = NoBody

\* the backing service of the three routes above resolves or rejects
ServiceReturns(ok) ==
    /\ srvPc = "service"
    /\ IF ok THEN Respond(200, [result |-> endpoint])
       ELSE Respond(500, [error |-> "Failed", message |-> endpoint])
    /\ UNCHANGED <<nonServerVars, env, endpoint, body, services, transfers, toolResult,
                   transactionHash, nMessages, paymentResult>>

\* =========================================================================
\* Front end: numbers and the strings that carry quantities
\*   a string is a sequence of one-character strings
\* =========================================================================
MaxQty == 3

Digits == <<"0", "1", "2", "3", "4", "5", "6", "7", "8", "9">>
IsDigit(c) == \E i \in DOMAIN Digits : Digits[i] = c
DigitVal(c) == (CHOOSE i \in DOMAIN Digits : Digits[i] = c) - 1

\* Number.prototype.toString of an integer
RECURSIVE NatToStr(_)
NatToStr(n) == IF n < 10 THEN <<Digits[n + 1]>> ELSE NatToStr(n \div 10) \o <<Digits[(n % 10) + 1]>>
NumToStr(n) == IF n < 0 THEN <<"-">> \o NatToStr(-n) ELSE NatToStr(n)

RECURSIVE SkipSpaces(_)
SkipSpaces(s) == IF s # <<>> /\ Head(s) = " " THEN SkipSpaces(Tail(s)) ELSE s

\* the longest prefix of digits
RECURSIVE DigitPrefix(_)
DigitPrefix(s) ==
    IF s # <<>> /\ IsDigit(Head(s)) THEN <<Head(s)>> \o DigitPrefix(Tail(s)) ELSE <<>>

RECURSIVE DigitsValue(_, _)
DigitsValue(s, acc) ==
    IF s = <<>> THEN acc ELSE DigitsValue(Tail(s), (acc * 10) + DigitVal(Head(s)))

NaN == [nan |-> TRUE, v |-> 0]
Number(n) == [nan |-> FALSE, v |-> n]

\* parseInt(s): white space, a sign, then digits; NaN without a digit
ParseInt(s) ==
    LET t == SkipSpaces(s)
        neg == t # <<>> /\ Head(t) = "-"
        u == IF t # <<>> /\ Head(t) \in {"-", "+"} THEN Tail(t) ELSE t
        ds == DigitPrefix(u)
    IN IF ds = <<>> THEN NaN
       ELSE Number(IF neg THEN -DigitsValue(ds, 0) ELSE DigitsValue(ds, 0))

\* parseInt(s) || d
ParseIntOr(s, d) == LET n == ParseInt(s) IN IF n.nan \/ n.v = 0 THEN d ELSE n.v

\* quantityStr.match(/\d+/): the first run of digits, "1" without one
RECURSIVE extractQuantity(_)
extractQuantity(s) ==
    IF s = <<>> THEN <<"1">>
    ELSE IF IsDigit(Head(s)) THEN DigitPrefix(s)
    ELSE extractQuantity(Tail(s))

\* Math.round(num / den) for den > 0
Round(num, den) == ((2 * num) + den) \div (2 * den)

RECURSIVE SumSeq(_)
SumSeq(s) == IF s = <<>> THEN 0 ELSE Head(s) + SumSeq(Tail(s))

\* =========================================================================
\* Front end: data the services return
\* =========================================================================
ComponentNames == {"motor", "plate"}

Component(n, q) == [name |-> n, quantity |-> q]

\* BOMEstimate.itemBreakdown entries, cost ranges in dollars
BomItem(n, q, lo, hi) ==
    [componentName |-> n, quantity |-> q, estimatedCostRange |-> [min |-> lo, max |-> hi]]
Bom(items) == [t |-> "bom", itemBreakdown |-> items]

\* responses of POST /api/upload-design: components with the quantity text
\* the model extracted, and the BOM estimate
UploadResponses ==
    {[components |-> <<>>, bomEstimate |-> Null],
     [components |-> <<Component("motor", <<"2", " ", "u">>), Component("plate", <<"N">>)>>,
      bomEstimate |-> Bom(<<BomItem("motor", <<"2">>, 10, 30)>>)],
     [components |-> <<Component("motor", <<"0">>)>>,
      bomEstimate |-> Null]}

\* the uploads that come without an estimate
UploadsWithoutEstimate == {r \in UploadResponses : r.bomEstimate = Null}

\* text a user can leave in an <input type="number">
TypedNumbers == {<<>>, <<"0">>, <<"3">>, <<"-", "2">>}

\* =========================================================================
\* PrioritiesChat
\* =========================================================================
PriorityKeys == {"quality", "speed", "cost"}
NoPriorities == [quality |-> FALSE, speed |-> FALSE, cost |-> FALSE]

\* mutant: the factors added to 1 instead of multiplied
CostMultiplier_additive(sel) ==
    10000 + (IF sel.quality THEN 2500 ELSE 0) + (IF sel.speed THEN 1500 ELSE 0)
          - (IF sel.cost THEN 2000 ELSE 0)

\* lines 114-123, in ten-thousandths. The code multiplies doubles: its product is
\* within one unit in the last place of the exact one, and over the estimates
\* of UploadResponses Math.round gives the same integers for both.
CostMultiplier(sel) ==
    LET m0 == 10000
        m1 == IF sel.quality THEN (m0 * 125) \div 100 ELSE m0
        m2 == IF sel.speed THEN (m1 * 115) \div 100 ELSE m1
        m3 == IF sel.cost THEN (m2 * 80) \div 100 ELSE m2
    IN m3

\* bomEstimate.itemBreakdown.find(item => item.componentName === name)
FindBomItem(bom, name) ==
    LET hits == {i \in DOMAIN bom.itemBreakdown : bom.itemBreakdown[i].componentName = name}
    IN IF hits = {} THEN Null
       ELSE LET i == CHOOSE j \in hits : \A k \in hits : j <= k
            IN [t |-> "item"] @@ bom.itemBreakdown[i]

\* lines 133-152: the range of a component that has an estimate
ScaledRange(bomItem, mult, comp, baseQty, currentQty) ==
    [t |-> "range",
     componentName |-> comp.name,
     quantity |-> comp.quantity,
     min |-> Round(bomItem.estimatedCostRange.min * mult * currentQty, 10000 * baseQty),
     max |-> Round(bomItem.estimatedCostRange.max * mult * currentQty, 10000 * baseQty),
     baseMin |-> bomItem.estimatedCostRange.min,
     baseMax |-> bomItem.estimatedCostRange.max]

\* lines 126-153: the range of one component with its estimate, or null
RangeOrNull(bomItem, mult, comp) ==
    IF bomItem = Null THEN Null
    ELSE ScaledRange(bomItem, mult, comp, ParseIntOr(bomItem.quantity, 1),
                     ParseIntOr(comp.quantity, 1))

ItemRange(bom, mult, comp) == RangeOrNull(FindBomItem(bom, comp.name), mult, comp)

\* lines 105-111: the value of the useMemo without an estimate
NoRanges == [costMultiplier |-> Missing, totalMin |-> 0, totalMax |-> 0, itemRanges |-> <<>>]

NotNull(x) == x # Null

\* lines 155-163: the totals over the ranges found
WithTotals(mult, itemRanges) ==
    [costMultiplier |-> mult,
     totalMin |-> SumSeq([i \in DOMAIN itemRanges |-> itemRanges[i].min]),
     totalMax |-> SumSeq([i \in DOMAIN itemRanges |-> itemRanges[i].max]),
     itemRanges |-> itemRanges]

\* the useMemo of lines 104-164, with the costMultiplier its run computed
AdjustedRanges(bom, sel, comps) ==
    IF bom = Null THEN NoRanges
    ELSE WithTotals(CostMultiplier(sel),
                    SelectSeq([i \in DOMAIN comps |-> ItemRange(bom, CostMultiplier(sel), comps[i])],
                              NotNull))

\* Math.round((totalMin + totalMax) / 2).toString()
Recommended(r) == NumToStr(Round(r.totalMin + r.totalMax, 2))

\* lines 84-90: the components with ids and numeric quantity text
Editable(comps) ==
    [i \in DOMAIN comps |->
        [id |-> i - 1, name |-> comps[i].name, quantity |-> extractQuantity(comps[i].quantity)]]

\* the effect of lines 171-176 after the useMemo gave r
RenderedWith(bom, sel, comps, limit, r) ==
    /\ selectedPriorities' = sel
    /\ editableComponents' = comps
    /\ adjustedRanges' = r
    /\ spendingLimitInput' =
          IF bom # Null /\ r.totalMax > 0 THEN Recommended(r) ELSE limit

\* the state after a render that changed the priorities or the components
Rerender(bom, sel, comps, limit) ==
    RenderedWith(bom, sel, comps, limit, AdjustedRanges(bom, sel, comps))

\* lines 166-168: the initial spending limit text
InitialLimit(bom, r) == IF bom # Null THEN Recommended(r) ELSE <<"2", "0", "0", "0">>

\* the first render with its useMemo value r, and the effects
MountedWith(bom, comps, r) == RenderedWith(bom, NoPriorities, comps, InitialLimit(bom, r), r)

\* the component mounts with these props: lines 77-101 and 166-176
PrioMount(components, bom) ==
    MountedWith(bom, Editable(components),
                AdjustedRanges(bom, NoPriorities, Editable(components)))

\* no PrioritiesChat is mounted
PrioUnmounted ==
    /\ selectedPriorities' = NoPriorities
    /\ editableComponents' = <<>>
    /\ spendingLimitInput' = <<>>
    /\ adjustedRanges' = NoRanges

OnPriorities == currentScreen = "priorities"

\* what a handler of PrioritiesChat leaves alone
PrioOnly ==
    UNCHANGED <<backendVars, appVars, uploadVars, sourcingVars, approvalVars, execs>>

\* lines 184-186
togglePriority(key) ==
    /\ OnPriorities
    /\ Rerender(bomEstimate, [selectedPriorities EXCEPT ![key] = ~@], editableComponents, spendingLimitInput)
    /\ PrioOnly

\* lines 188-197; the minus button is disabled at 1 (line 420)
updateQuantity(i, delta) ==
    /\ OnPriorities
    /\ i \in DOMAIN editableComponents
    /\ delta = -1 => ~(ParseInt(editableComponents[i].quantity).nan)
                     /\ ParseInt(editableComponents[i].quantity).v > 1
    /\ LET currentQty == ParseIntOr(editableComponents[i].quantity, 1)
           newQty == IF currentQty + delta < 1 THEN 1 ELSE currentQty + delta
       IN /\ newQty <= MaxQty
          /\ Rerender(bomEstimate, selectedPriorities,
                      [editableComponents EXCEPT ![i].quantity = NumToStr(newQty)],
                      spendingLimitInput)
    /\ PrioOnly

\* lines 199-208
setQuantity(i, value) ==
    /\ OnPriorities
    /\ i \in DOMAIN editableComponents
    /\ LET numValue == ParseIntOr(value, 1)
       IN IF numValue < 1
          THEN UNCHANGED prioVars
          ELSE Rerender(bomEstimate, selectedPriorities,
                        [editableComponents EXCEPT ![i].quantity = NumToStr(numValue)],
                        spendingLimitInput)
    /\ PrioOnly

\* lines 210-212
deleteComponent(i) ==
    /\ OnPriorities
    /\ i \in DOMAIN editableComponents
    /\ Rerender(bomEstimate, selectedPriorities,
                SubSeq(editableComponents, 1, i - 1)
                    \o SubSeq(editableComponents, i + 1, Len(editableComponents)),
                spendingLimitInput)
    /\ PrioOnly

\* lines 214-225
handleSpendingLimitChange(value) ==
    /\ OnPriorities
    /\ IF value = <<>> THEN spendingLimitInput' = <<>>
       ELSE LET numValue == ParseInt(value)
            IN IF ~numValue.nan /\ numValue.v >= 0
               THEN spendingLimitInput' = value
               ELSE UNCHANGED spendingLimitInput
    /\ UNCHANGED <<selectedPriorities, editableComponents, adjustedRanges>>
    /\ PrioOnly

\* =========================================================================
\* Component state at mount, and navigation (App.tsx render, lines 221-300)
\* =========================================================================
Screens == {"landing", "upload", "priorities", "sourcing", "rfq", "procurement",
            "approval", "crm"}

\* the Sidebar's navItems, SourcingPipeline.tsx lines 605-673
NavItems == <<"upload", "priorities", "sourcing", "rfq", "procurement", "approval", "crm">>

\* EngineeringAssetUpload lines 17-20
UploadFresh ==
    /\ uploaded' = FALSE
    /\ processing' = FALSE
    /\ fileData' = Null

NoSelections == [n \in ComponentNames |-> ""]

\* SourcingPipeline lines 24-30 followed by the effect of lines 42-113 up to
\* its await: the validation throws into the catch, or the request is sent
fetchVendors ==
    /\ srcSourcingData' = Null
    /\ srcSelectedVendors' = NoSelections
    /\ IF extractedComponents' = <<>>
       THEN loading' = FALSE /\ error' = "No components provided"
       ELSE IF spendingLimit' <= 0
       THEN loading' = FALSE /\ error' = "Invalid spending limit"
       ELSE loading' = TRUE /\ error' = ""

SourcingUnmounted ==
    /\ loading' = FALSE
    /\ error' = ""
    /\ srcSourcingData' = Null
    /\ srcSelectedVendors' = NoSelections

NoConfirmations == [poReviewed |-> FALSE, authorizePayment |-> FALSE, vendorsVerified |-> FALSE]

\* ApprovalExecution lines 17-25
ApprovalFresh ==
    /\ confirmations' = NoConfirmations
    /\ isExecuting' = FALSE
    /\ shownHash' = ""
    /\ status' = "idle"
    /\ executionStep' = 0

\* the component an execution belongs to is gone: its setState calls do nothing
Detached(ex) == [i \in DOMAIN ex |-> [ex[i] EXCEPT !.live = FALSE]]

\* setCurrentScreen(target): the screen shown is replaced, the component of the
\* old screen unmounts and the one of the new screen mounts with the props of
\* the new render; ex is the executions the handler leaves running
GoTo(target, via, ex) ==
    /\ currentScreen' = target
    /\ IF target = currentScreen
       THEN /\ UNCHANGED <<navVia, uploadVars, prioVars, sourcingVars, approvalVars>>
            /\ execs' = ex
       ELSE /\ navVia' = via
            /\ UploadFresh
            /\ IF target = "priorities"
               THEN PrioMount(extractedComponents', bomEstimate')
               ELSE PrioUnmounted
            /\ IF target = "sourcing" THEN fetchVendors ELSE SourcingUnmounted
            /\ ApprovalFresh
            /\ execs' = Detached(ex)

\* the three seed orders of lines 91-145, with the number of the id
InitialOrders ==
    <<[id |-> 1, vendor |-> "Acme Motors Inc.", amount |-> 2850,
       transactionHash |-> "0x742d35...89cf", items |-> <<>>],
      [id |-> 2, vendor |-> "TechParts Supply", amount |-> 1275,
       transactionHash |-> "0x8a3f19...2d4e", items |-> <<>>],
      [id |-> 3, vendor |-> "Global Components", amount |-> 3420,
       transactionHash |-> "0x1f9c82...6a3b", items |-> <<>>]>>

\* the page has loaded: lines 83-145 and the first render
PageLoaded(test) ==
    /\ currentScreen = "landing"
    /\ procurementPlan = <<>>
    /\ extractedComponents = <<>>
    /\ bomEstimate = Null
    /\ priorities = Null
    /\ spendingLimit = 0
    /\ selectedVendors = NoSelections
    /\ sourcingData = Null
    /\ orders = InitialOrders
    /\ navVia = "load"
    /\ testMode = test
    /\ uploaded = FALSE
    /\ processing = FALSE
    /\ fileData = Null
    /\ selectedPriorities = NoPriorities
    /\ editableComponents = <<>>
    /\ spendingLimitInput = <<>>
    /\ adjustedRanges = NoRanges
    /\ loading = FALSE
    /\ error = ""
    /\ srcSourcingData = Null
    /\ srcSelectedVendors = NoSelections
    /\ confirmations = NoConfirmations
    /\ isExecuting = FALSE
    /\ shownHash = ""
    /\ status = "idle"
    /\ executionStep = 0
    /\ execs = <<>>

\* the effect of lines 206-219 when the URL carries ?test=sourcing; the two
\* names stand for the stepper motor and the aluminium plate of the test data
TestModeEffect ==
    /\ testMode
    /\ testMode' = FALSE
    /\ extractedComponents' = <<Component("motor", <<"3">>), Component("plate", <<"1">>)>>
    /\ spendingLimit' = 2500
    /\ priorities' = [t |-> "priorities", quality |-> FALSE, speed |-> FALSE, cost |-> TRUE]
    /\ UNCHANGED <<procurementPlan, bomEstimate, selectedVendors, sourcingData, orders>>
    /\ GoTo("sourcing", "test", execs)
    /\ UNCHANGED backendVars

\* LandingPage onGetStarted, line 224
onGetStarted ==
    /\ currentScreen = "landing"
    /\ ~testMode
    /\ UNCHANGED <<procurementPlan, extractedComponents, bomEstimate, priorities,
                   spendingLimit, selectedVendors, sourcingData, orders, testMode>>
    /\ GoTo("upload", "continue", execs)
    /\ UNCHANGED backendVars

\* Sidebar onNavigate={setCurrentScreen}, lines 227-230
onNavigate(item) ==
    /\ currentScreen # "landing"
    /\ item # currentScreen
    /\ UNCHANGED <<procurementPlan, extractedComponents, bomEstimate, priorities,
                   spendingLimit, selectedVendors, sourcingData, orders, testMode>>
    /\ GoTo(item, "sidebar", execs)
    /\ UNCHANGED backendVars

\* =========================================================================
\* EngineeringAssetUpload
\* =========================================================================
UploadOnly ==
    UNCHANGED <<backendVars, appVars, prioVars, sourcingVars, approvalVars, execs>>

\* lines 23-30: a file is chosen in the drop zone of line 66
handleFileSelect ==
    /\ currentScreen = "upload"
    /\ ~uploaded /\ ~processing
    /\ processing' = TRUE
    /\ uploaded' = FALSE
    /\ UNCHANGED fileData
    /\ UploadOnly

\* lines 32-34 and 39: uploadDesignFile resolved
UploadResolves(r) ==
    /\ currentScreen = "upload"
    /\ processing
    /\ fileData' = [t |-> "file", components |-> r.components, bomEstimate |-> r.bomEstimate]
    /\ uploaded' = TRUE
    /\ processing' = FALSE
    /\ UploadOnly

\* lines 35-39: uploadDesignFile rejected
UploadRejects ==
    /\ currentScreen = "upload"
    /\ processing
    /\ uploaded' = FALSE
    /\ processing' = FALSE
    /\ UNCHANGED fileData
    /\ UploadOnly

\* the button of lines 228-242 with onUploadComplete of App lines 233-237
onUploadComplete ==
    /\ currentScreen = "upload"
    /\ uploaded /\ fileData # Null
    /\ extractedComponents' = fileData.components
    /\ bomEstimate' = fileData.bomEstimate
    /\ UNCHANGED <<procurementPlan, priorities, spendingLimit, selectedVendors,
                   sourcingData, orders, testMode>>
    /\ GoTo("priorities", "continue", execs)
    /\ UNCHANGED backendVars

\* =========================================================================
\* PrioritiesChat handleContinue with onComplete of App lines 243-253
\* =========================================================================
\* mutant: Continue without the check for a chosen priority
handleContinue_anyPriorities ==
    /\ OnPriorities
    /\ editableComponents # <<>>
    /\ extractedComponents' =
          [i \in DOMAIN editableComponents |->
              Component(editableComponents[i].name, editableComponents[i].quantity)]
    /\ priorities' = [t |-> "priorities"] @@ selectedPriorities
    /\ spendingLimit' = ParseIntOr(spendingLimitInput, adjustedRanges.totalMin)
    /\ UNCHANGED <<procurementPlan, bomEstimate, selectedVendors, sourcingData,
                   orders, testMode>>
    /\ GoTo("sourcing", "continue", execs)
    /\ UNCHANGED backendVars

handleContinue ==
    /\ OnPriorities
    /\ editableComponents # <<>>
    /\ \E k \in PriorityKeys : selectedPriorities[k]
    /\ extractedComponents' =
          [i \in DOMAIN editableComponents |->
              Component(editableComponents[i].name, editableComponents[i].quantity)]
    /\ priorities' = [t |-> "priorities"] @@ selectedPriorities
    /\ spendingLimit' = ParseIntOr(spendingLimitInput, adjustedRanges.totalMin)
    /\ UNCHANGED <<procurementPlan, bomEstimate, selectedVendors, sourcingData,
                   orders, testMode>>
    /\ GoTo("sourcing", "continue", execs)
    /\ UNCHANGED backendVars

\* =========================================================================
\* SourcingPipeline
\* =========================================================================
\* vendors the sourcing service may return, prices and shipping in dollars
Vendor(n, price, ship) == [name |-> n, pricePerUnit |-> price, shipping |-> ship]
VendorLists == {<<>>, <<Vendor("Acme", 10, 5), Vendor("TechParts", 8, 0)>>}

SourcingOnly ==
    UNCHANGED <<backendVars, appVars, uploadVars, prioVars, approvalVars, execs>>

\* lines 57-62 and the response: one search per requested component
SourcingResponse(components, lists) ==
    [t |-> "sourcing",
     componentSearches |->
        [i \in DOMAIN components |->
            [componentName |-> components[i].name,
             quantity |-> ParseIntOr(components[i].quantity, 1),
             vendors |-> lists[i]]]]

\* lines 80-87: the first vendor of every search that has one
InitialSelections(searches) ==
    [n \in ComponentNames |->
        LET hits == {i \in DOMAIN searches :
                        searches[i].componentName = n /\ searches[i].vendors # <<>>}
        IN IF hits = {} THEN ""
           ELSE searches[CHOOSE i \in hits : \A j \in hits : j <= i].vendors[1].name]

\* lines 70-91 and 108-111: sourceVendors resolved
SourceVendorsResolves(lists) ==
    /\ currentScreen = "sourcing"
    /\ loading
    /\ DOMAIN lists = DOMAIN extractedComponents
    /\ LET result == SourcingResponse(extractedComponents, lists)
       IN /\ srcSourcingData' = result
          /\ srcSelectedVendors' = InitialSelections(result.componentSearches)
    /\ loading' = FALSE
    /\ UNCHANGED error
    /\ SourcingOnly

\* lines 92-111: sourceVendors rejected
SourceVendorsRejects ==
    /\ currentScreen = "sourcing"
    /\ loading
    /\ error' = "Failed to source vendors"
    /\ loading' = FALSE
    /\ UNCHANGED <<srcSourcingData, srcSelectedVendors>>
    /\ SourcingOnly

\* the retry button of the error view, line 267: the effect runs again
retry ==
    /\ currentScreen = "sourcing"
    /\ ~loading /\ error # ""
    /\ UNCHANGED appVars
    /\ fetchVendors
    /\ UNCHANGED <<backendVars, uploadVars, prioVars, approvalVars, execs>>

\* lines 135-140, from a vendor card of the result view (line 471)
selectVendor(componentName, vendorName) ==
    /\ currentScreen = "sourcing"
    /\ ~loading /\ error = "" /\ srcSourcingData # Null
    /\ \E i \in DOMAIN srcSourcingData.componentSearches :
          LET search == srcSourcingData.componentSearches[i]
          IN /\ search.componentName = componentName
             /\ \E j \in DOMAIN search.vendors : search.vendors[j].name = vendorName
    /\ srcSelectedVendors[componentName] # vendorName
    /\ srcSelectedVendors' = [srcSelectedVendors EXCEPT ![componentName] = vendorName]
    /\ UNCHANGED <<loading, error, srcSourcingData>>
    /\ SourcingOnly

\* the button of lines 300-310 with onContinue of App lines 260-264
onContinue ==
    /\ currentScreen = "sourcing"
    /\ ~loading /\ error = "" /\ srcSourcingData # Null
    /\ selectedVendors' = srcSelectedVendors
    /\ sourcingData' = srcSourcingData
    /\ UNCHANGED <<procurementPlan, extractedComponents, bomEstimate, priorities,
                   spendingLimit, orders, testMode>>
    /\ GoTo("rfq", "continue", execs)
    /\ UNCHANGED backendVars

\* =========================================================================
\* RFQSpecGeneration onContinue = handlePlanGenerated, App lines 147-185
\*   (the button of line 366 and "Continue Anyway" of lines 330-351)
\* =========================================================================
\* search.vendors.find(v => v.name === selectedVendors[search.componentName])
FoundVendors(search) ==
    {j \in DOMAIN search.vendors :
        search.vendors[j].name = selectedVendors[search.componentName]}

First(S) == CHOOSE j \in S : \A k \in S : j <= k

\* lines 162-164: the names of the other vendors of the search
AlternativeVendors(vendors, name) ==
    LET NotChosen(v) == v.name # name
    IN [j \in DOMAIN SelectSeq(vendors, NotChosen) |-> SelectSeq(vendors, NotChosen)[j].name]

\* lines 168-178
ItemFor(search, index, vendor, quantity) ==
    [t |-> "item",
     id |-> index,
     partName |-> search.componentName,
     quantity |-> quantity,
     vendor |-> vendor.name,
     alternativeVendors |-> AlternativeVendors(search.vendors, vendor.name),
     pricePerUnit |-> vendor.pricePerUnit,
     totalCost |-> (vendor.pricePerUnit * quantity) + vendor.shipping]

\* lines 155-179: the plan item of the index-th selected search, or null
PlanItemOf(search, index) ==
    IF \/ \A k \in DOMAIN extractedComponents :
             extractedComponents[k].name # search.componentName
       \/ FoundVendors(search) = {}
    THEN Null
    ELSE ItemFor(search, index, search.vendors[First(FoundVendors(search))],
                 ParseIntOr(NumToStr(search.quantity), 1))

IsSelected(search) == selectedVendors[search.componentName] # ""

\* the map of lines 156-180 over the selected searches
ItemsOf(chosen) == [i \in DOMAIN chosen |-> PlanItemOf(chosen[i], i)]

\* lines 154-181
GeneratedPlan ==
    SelectSeq(ItemsOf(SelectSeq(sourcingData.componentSearches, IsSelected)), NotNull)

handlePlanGenerated ==
    /\ currentScreen = "rfq"
    /\ sourcingData # Null
    /\ extractedComponents # <<>>
    /\ procurementPlan' = GeneratedPlan
    /\ UNCHANGED <<extractedComponents, bomEstimate, priorities, spendingLimit,
                   selectedVendors, sourcingData, orders, testMode>>
    /\ GoTo("procurement", "continue", execs)
    /\ UNCHANGED backendVars

\* =========================================================================
\* ProcurementPlan (part_004 from line 58)
\* =========================================================================
PlanOnly ==
    /\ UNCHANGED <<currentScreen, extractedComponents, bomEstimate, priorities,
                   spendingLimit, selectedVendors, sourcingData, orders, navVia, testMode>>
    /\ UNCHANGED <<backendVars, uploadVars, prioVars, sourcingVars, approvalVars, execs>>

\* updateQuantity, lines 107-118, from the input of lines 403-408
ProcurementPlan_updateQuantity(i, value) ==
    /\ currentScreen = "procurement"
    /\ i \in DOMAIN procurementPlan
    /\ LET newQuantity == ParseIntOr(value, 0)
       IN procurementPlan' =
             [k \in DOMAIN procurementPlan |->
                 IF procurementPlan[k].id = procurementPlan[i].id
                 THEN [procurementPlan[k] EXCEPT
                          !.quantity = newQuantity,
                          !.totalCost = newQuantity * procurementPlan[k].pricePerUnit]
                 ELSE procurementPlan[k]]
    /\ PlanOnly

\* lines 120-127, from the select of lines 411-420
updateVendor(i, newVendor) ==
    /\ currentScreen = "procurement"
    /\ i \in DOMAIN procurementPlan
    /\ newVendor # procurementPlan[i].vendor
    /\ \E j \in DOMAIN procurementPlan[i].alternativeVendors :
          procurementPlan[i].alternativeVendors[j] = newVendor
    /\ procurementPlan' =
          [k \in DOMAIN procurementPlan |->
              IF procurementPlan[k].id = procurementPlan[i].id
              THEN [procurementPlan[k] EXCEPT !.vendor = newVendor]
              ELSE procurementPlan[k]]
    /\ PlanOnly

\* line 129 and App line 196: plan.reduce((sum, item) => sum + item.totalCost, 0)
PlanTotal(plan) == SumSeq([i \in DOMAIN plan |-> plan[i].totalCost])

\* mutant: approving the plan skips the approval screen
handleApprove_skip ==
    /\ currentScreen = "procurement"
    /\ UNCHANGED <<procurementPlan, extractedComponents, bomEstimate, priorities,
                   spendingLimit, selectedVendors, sourcingData, orders, testMode>>
    /\ GoTo("crm", "continue", execs)
    /\ UNCHANGED backendVars

\* onApprove = handleApprove, App lines 187-189
handleApprove ==
    /\ currentScreen = "procurement"
    /\ UNCHANGED <<procurementPlan, extractedComponents, bomEstimate, priorities,
                   spendingLimit, selectedVendors, sourcingData, orders, testMode>>
    /\ GoTo("approval", "continue", execs)
    /\ UNCHANGED backendVars

\* =========================================================================
\* ApprovalExecution
\* =========================================================================
MaxExecs == 2

TxHashes == {"0xaa", "0xbb"}

\* what executePayment (part_008 lines 219-245) gives handleExecute: the
\* parsed body of a 2xx answer, or an exception for any other answer
\* sent tells whether the send_to_address the server asks for (emailService.ts
\* 235-296) was carried out before the answer: it was when a hash comes back,
\* and it may have been when the answer is a failure (the stream of the agent
\* ends in error or without a hash after the tool call, or the answer is lost)
PaymentOutcomes ==
    {[ok |-> TRUE, success |-> TRUE, transactionHashes |-> <<h>>, sent |-> TRUE] :
        h \in TxHashes}
        \cup {[ok |-> TRUE, success |-> FALSE, transactionHashes |-> <<>>, sent |-> b] :
                 b \in BOOLEAN}
        \cup {[ok |-> TRUE, success |-> TRUE, transactionHashes |-> <<>>, sent |-> b] :
                 b \in BOOLEAN}
        \cup {[ok |-> FALSE, success |-> FALSE, transactionHashes |-> <<>>, sent |-> b] :
                 b \in BOOLEAN}

\* transfers followed in one session
MaxTransfers == 2

ApprovalOnly == UNCHANGED <<backendVars, appVars, uploadVars, prioVars, sourcingVars>>

\* the checkboxes of lines 369, 384 and 399, shown while idle (line 121)
setConfirmations(key) ==
    /\ currentScreen = "approval"
    /\ status = "idle"
    /\ confirmations' = [confirmations EXCEPT ![key] = ~@]
    /\ UNCHANGED <<isExecuting, shownHash, status, executionStep, execs>>
    /\ ApprovalOnly

\* onBack, App line 291
onBack ==
    /\ currentScreen = "approval"
    /\ UNCHANGED <<procurementPlan, extractedComponents, bomEstimate, priorities,
                   spendingLimit, selectedVendors, sourcingData, orders, testMode>>
    /\ GoTo("procurement", "back", execs)
    /\ UNCHANGED backendVars

\* mutant: the button is not disabled while a confirmation is unchecked
handleExecute_unconfirmed ==
    /\ currentScreen = "approval"
    /\ status = "idle"
    /\ ~isExecuting
    /\ (Len(orders) - Len(InitialOrders)) + Len(execs) < MaxExecs
    /\ isExecuting' = TRUE
    /\ status' = "processing"
    /\ executionStep' = 0
    /\ execs' = Append(execs, [pc |-> "step0", live |-> TRUE, plan |-> procurementPlan,
                               orders |-> orders, txHash |-> ""])
    /\ UNCHANGED <<confirmations, shownHash>>
    /\ ApprovalOnly

\* handleExecute up to its first await, lines 43-50, from the button of
\* lines 424-430; the call keeps the plan and the onExecute of its render
handleExecute ==
    /\ currentScreen = "approval"
    /\ status = "idle"
    /\ \A k \in DOMAIN confirmations : confirmations[k]
    /\ ~isExecuting
    /\ (Len(orders) - Len(InitialOrders)) + Len(execs) < MaxExecs
    /\ isExecuting' = TRUE
    /\ status' = "processing"
    /\ executionStep' = 0
    /\ execs' = Append(execs, [pc |-> "step0", live |-> TRUE, plan |-> procurementPlan,
                               orders |-> orders, txHash |-> ""])
    /\ UNCHANGED <<confirmations, shownHash>>
    /\ ApprovalOnly

Without(ex, i) == SubSeq(ex, 1, i - 1) \o SubSeq(ex, i + 1, Len(ex))

\* mutant: the first timer jumps over the vendor validation step
StepTimer_skip(i) ==
    /\ i \in DOMAIN execs
    /\ execs[i].pc \in {"step0", "step1", "step2"}
    /\ LET next == CASE execs[i].pc = "step0" -> 2
                     [] execs[i].pc = "step1" -> 2
                     [] execs[i].pc = "step2" -> 3
       IN /\ execs' = [execs EXCEPT ![i].pc =
                          CASE next = 2 -> "step2"
                            [] next = 3 -> "executePayment"]
          /\ IF execs[i].live THEN executionStep' = next ELSE UNCHANGED executionStep
    /\ UNCHANGED <<confirmations, isExecuting, shownHash, status>>
    /\ ApprovalOnly

\* lines 52-61: a 500 ms timer of steps 0..2 ends; after the third the
\* payment request is sent
StepTimer(i) ==
    /\ i \in DOMAIN execs
    /\ execs[i].pc \in {"step0", "step1", "step2"}
    /\ LET next == CASE execs[i].pc = "step0" -> 1
                     [] execs[i].pc = "step1" -> 2
                     [] execs[i].pc = "step2" -> 3
       IN /\ execs' = [execs EXCEPT ![i].pc =
                          CASE next = 1 -> "step1"
                            [] next = 2 -> "step2"
                            [] next = 3 -> "executePayment"]
          /\ IF execs[i].live THEN executionStep' = next ELSE UNCHANGED executionStep
    /\ UNCHANGED <<confirmations, isExecuting, shownHash, status>>
    /\ ApprovalOnly

\* mutant: the answer is not checked for success or for a hash
PaymentReturns_unchecked(i, outcome) ==
    /\ i \in DOMAIN execs
    /\ execs[i].pc = "executePayment"
    /\ execs[i].plan = <<>> => (~outcome.ok /\ ~outcome.sent)
    /\ outcome.sent => Len(walletTransfers) < MaxTransfers
    /\ walletTransfers' = IF outcome.sent THEN Append(walletTransfers, execs[i].plan)
                          ELSE walletTransfers
    /\ execs' = [execs EXCEPT ![i].pc = "step4",
                              ![i].txHash = IF outcome.transactionHashes # <<>>
                                            THEN outcome.transactionHashes[1] ELSE ""]
    /\ IF execs[i].live
       THEN executionStep' = 4 /\ shownHash' = execs'[i].txHash
       ELSE UNCHANGED <<executionStep, shownHash>>
    /\ UNCHANGED <<status, isExecuting, confirmations>>
    /\ UNCHANGED <<srvVars, retryVars, svcVars, fcVars, appVars, uploadVars, prioVars,
                   sourcingVars>>

\* mutant: no catch around the payment call
PaymentReturns_noCatch(i, outcome) ==
    /\ i \in DOMAIN execs
    /\ execs[i].pc = "executePayment"
    /\ execs[i].plan = <<>> => (~outcome.ok /\ ~outcome.sent)
    /\ outcome.sent => Len(walletTransfers) < MaxTransfers
    /\ walletTransfers' = IF outcome.sent THEN Append(walletTransfers, execs[i].plan)
                          ELSE walletTransfers
    /\ IF outcome.ok /\ outcome.success /\ outcome.transactionHashes # <<>>
       THEN /\ execs' = [execs EXCEPT ![i].pc = "step4",
                                      ![i].txHash = outcome.transactionHashes[1]]
            /\ IF execs[i].live
               THEN executionStep' = 4 /\ shownHash' = outcome.transactionHashes[1]
               ELSE UNCHANGED <<executionStep, shownHash>>
       ELSE /\ execs' = Without(execs, i)
            /\ UNCHANGED <<executionStep, shownHash>>
    /\ UNCHANGED <<status, isExecuting, confirmations>>
    /\ UNCHANGED <<srvVars, retryVars, svcVars, fcVars, appVars, uploadVars, prioVars,
                   sourcingVars>>

\* lines 62-77 and the catch of lines 89-95: executePayment returned or threw
PaymentReturns(i, outcome) ==
    /\ i \in DOMAIN execs
    /\ execs[i].pc = "executePayment"
    \* the server answers an empty plan with 400 (index.ts line 181)
    /\ execs[i].plan = <<>> => (~outcome.ok /\ ~outcome.sent)
    /\ outcome.sent => Len(walletTransfers) < MaxTransfers
    /\ walletTransfers' = IF outcome.sent THEN Append(walletTransfers, execs[i].plan)
                          ELSE walletTransfers
    /\ IF outcome.ok /\ outcome.success /\ outcome.transactionHashes # <<>>
       THEN LET txHash == outcome.transactionHashes[1]
            IN /\ execs' = [execs EXCEPT ![i].pc = "step4", ![i].txHash = txHash]
               /\ IF execs[i].live
                  THEN executionStep' = 4 /\ shownHash' = txHash
                  ELSE UNCHANGED <<executionStep, shownHash>>
               /\ UNCHANGED <<status, isExecuting>>
       ELSE /\ execs' = Without(execs, i)
            /\ IF execs[i].live
               THEN status' = "failed" /\ isExecuting' = FALSE
               ELSE UNCHANGED <<status, isExecuting>>
            /\ UNCHANGED <<executionStep, shownHash>>
    /\ UNCHANGED confirmations
    /\ UNCHANGED <<srvVars, retryVars, svcVars, fcVars, appVars, uploadVars, prioVars,
                   sourcingVars>>

\* lines 78-80: the timer after the hash was received ends
HashTimer(i) ==
    /\ i \in DOMAIN execs
    /\ execs[i].pc = "step4"
    /\ execs' = [execs EXCEPT ![i].pc = "step5"]
    /\ IF execs[i].live THEN executionStep' = 5 ELSE UNCHANGED executionStep
    /\ UNCHANGED <<confirmations, isExecuting, shownHash, status>>
    /\ ApprovalOnly

\* lines 81-88: the last timer ends, success is shown and onExecute is scheduled
LogTimer(i) ==
    /\ i \in DOMAIN execs
    /\ execs[i].pc = "step5"
    /\ execs' = [execs EXCEPT ![i].pc = "onExecute"]
    /\ IF execs[i].live
       THEN status' = "success" /\ isExecuting' = FALSE
       ELSE UNCHANGED <<status, isExecuting>>
    /\ UNCHANGED <<confirmations, shownHash, executionStep>>
    /\ ApprovalOnly

\* App lines 192-201 with the orders and the plan of the render whose
\* onExecute the call holds
NewOrder(e) ==
    [id |-> Len(e.orders) + 1,
     vendor |-> IF e.plan # <<>> /\ e.plan[1].vendor # "" THEN e.plan[1].vendor
                ELSE "Multiple Vendors",
     amount |-> PlanTotal(e.plan),
     transactionHash |-> e.txHash,
     items |-> e.plan]

\* mutant: the timer is cleared when the approval screen unmounts
onExecute_whileMounted(i) ==
    /\ i \in DOMAIN execs
    /\ execs[i].pc = "onExecute"
    /\ execs[i].live
    /\ orders' = <<NewOrder(execs[i])>> \o execs[i].orders
    /\ execs' = [execs EXCEPT ![i].pc = "crmTimer"]
    /\ UNCHANGED <<currentScreen, procurementPlan, extractedComponents, bomEstimate,
                   priorities, spendingLimit, selectedVendors, sourcingData, navVia,
                   testMode>>
    /\ UNCHANGED <<backendVars, uploadVars, prioVars, sourcingVars, approvalVars>>

\* the 2000 ms timer of lines 85-87 ends: handleExecutePayment, App lines 191-204
onExecute(i) ==
    /\ i \in DOMAIN execs
    /\ execs[i].pc = "onExecute"
    /\ orders' = <<NewOrder(execs[i])>> \o execs[i].orders
    /\ execs' = [execs EXCEPT ![i].pc = "crmTimer"]
    /\ UNCHANGED <<currentScreen, procurementPlan, extractedComponents, bomEstimate,
                   priorities, spendingLimit, selectedVendors, sourcingData, navVia,
                   testMode>>
    /\ UNCHANGED <<backendVars, uploadVars, prioVars, sourcingVars, approvalVars>>

\* the 1500 ms timer of App line 203 ends
CrmTimer(i) ==
    /\ i \in DOMAIN execs
    /\ execs[i].pc = "crmTimer"
    /\ UNCHANGED <<procurementPlan, extractedComponents, bomEstimate, priorities,
                   spendingLimit, selectedVendors, sourcingData, orders, testMode>>
    /\ GoTo("crm", "timer", Without(execs, i))
    /\ UNCHANGED backendVars

\* the Try Again button of the failed view, lines 511-529
tryAgain ==
    /\ currentScreen = "approval"
    /\ status = "failed"
    /\ status' = "idle"
    /\ shownHash' = ""
    /\ executionStep' = 0
    /\ UNCHANGED <<confirmations, isExecuting, execs>>
    /\ ApprovalOnly

\* =========================================================================
\* withRetry (utils/retry.ts, part_011)
\* =========================================================================
MaxRetries == 3

\* the defaults of lines 12-13
DefaultMaxRetries == 3
DefaultInitialDelay == 1000

\* values of process.env.USE_RETRY_LOGIC; "" is the unset variable
FlagValues == {"", "true", "false", "TRUE", "1"}

\* what fn can resolve with
FnValues == {"message"}

Resolved(v) == [ok |-> TRUE, value |-> v]
Rejected(e) == [ok |-> FALSE, error |-> e]
NoOutcome == [none |-> TRUE]

\* lines 30-32
Retryable(e) == e.api /\ (e.status = 429 \/ e.status >= 500)

RECURSIVE Pow2(_)
Pow2(n) == IF n = 0 THEN 1 ELSE 2 * Pow2(n - 1)

RetryEnded == retryPc \in {"returned", "thrown"}

RetryOnly == UNCHANGED <<srvVars, uiVars, svcVars, fcVars, walletTransfers>>

\* nothing has called withRetry
RetryIdle ==
    /\ USE_RETRY_LOGIC = ""
    /\ maxRetries = DefaultMaxRetries
    /\ initialDelay = DefaultInitialDelay
    /\ retryPc = "idle"
    /\ retryI = 0
    /\ attempts = <<>>
    /\ delays = <<>>
    /\ retryOutcome = NoOutcome

\* withRetry(fn, maxRetries, initialDelay) is called: lines 15-24
WithRetry ==
    /\ retryPc = "idle"
    /\ IF USE_RETRY_LOGIC # "true"
       THEN retryPc' = "fnOnce" /\ UNCHANGED retryOutcome
       ELSE IF 0 < maxRetries
       THEN retryPc' = "fn" /\ UNCHANGED retryOutcome
       ELSE /\ retryPc' = "thrown"
            /\ retryOutcome' = Rejected([api |-> FALSE, status |-> 0])
    /\ UNCHANGED <<USE_RETRY_LOGIC, maxRetries, initialDelay, retryI, attempts, delays>>
    /\ RetryOnly

\* fn() resolves: line 19 or line 24
FnResolves(v) ==
    /\ retryPc \in {"fnOnce", "fn"}
    /\ attempts' = Append(attempts, Resolved(v))
    /\ retryOutcome' = Resolved(v)
    /\ retryPc' = "returned"
    /\ UNCHANGED <<USE_RETRY_LOGIC, maxRetries, initialDelay, retryI, delays>>
    /\ RetryOnly

\* mutant: the last attempt is retried like the others
FnRejects_noLastAttempt(e) ==
    /\ retryPc \in {"fnOnce", "fn"}
    /\ attempts' = Append(attempts, Rejected(e))
    /\ IF retryPc = "fn" /\ Retryable(e) /\ Len(attempts) < 5
       THEN /\ delays' = Append(delays, initialDelay * Pow2(retryI))
            /\ retryPc' = "delay"
            /\ UNCHANGED retryOutcome
       ELSE /\ retryOutcome' = Rejected(e)
            /\ retryPc' = "thrown"
            /\ UNCHANGED delays
    /\ UNCHANGED <<USE_RETRY_LOGIC, maxRetries, initialDelay, retryI>>
    /\ RetryOnly

\* mutant: every error is retried
FnRejects_anyError(e) ==
    /\ retryPc \in {"fnOnce", "fn"}
    /\ attempts' = Append(attempts, Rejected(e))
    /\ IF retryPc = "fn" /\ retryI # maxRetries - 1
       THEN /\ delays' = Append(delays, initialDelay * Pow2(retryI))
            /\ retryPc' = "delay"
            /\ UNCHANGED retryOutcome
       ELSE /\ retryOutcome' = Rejected(e)
            /\ retryPc' = "thrown"
            /\ UNCHANGED delays
    /\ UNCHANGED <<USE_RETRY_LOGIC, maxRetries, initialDelay, retryI>>
    /\ RetryOnly

\* mutant: the flag is not read, the loop always runs
FnRejects_flagIgnored(e) ==
    /\ retryPc \in {"fnOnce", "fn"}
    /\ attempts' = Append(attempts, Rejected(e))
    /\ IF retryI # maxRetries - 1 /\ Retryable(e)
       THEN /\ delays' = Append(delays, initialDelay * Pow2(retryI))
            /\ retryPc' = "delay"
            /\ UNCHANGED retryOutcome
       ELSE /\ retryOutcome' = Rejected(e)
            /\ retryPc' = "thrown"
            /\ UNCHANGED delays
    /\ UNCHANGED <<USE_RETRY_LOGIC, maxRetries, initialDelay, retryI>>
    /\ RetryOnly

\* fn() rejects: line 19 passes the rejection on, lines 25-41 are the catch
FnRejects(e) ==
    /\ retryPc \in {"fnOnce", "fn"}
    /\ attempts' = Append(attempts, Rejected(e))
    /\ IF retryPc = "fn" /\ retryI # maxRetries - 1 /\ Retryable(e)
       THEN /\ delays' = Append(delays, initialDelay * Pow2(retryI))
            /\ retryPc' = "delay"
            /\ UNCHANGED retryOutcome
       ELSE /\ retryOutcome' = Rejected(e)
            /\ retryPc' = "thrown"
            /\ UNCHANGED delays
    /\ UNCHANGED <<USE_RETRY_LOGIC, maxRetries, initialDelay, retryI>>
    /\ RetryOnly

\* the timer of line 35 ends: continue, i++, and the next fn() of line 24
DelayEnds ==
    /\ retryPc = "delay"
    /\ retryI' = retryI + 1
    /\ retryPc' = IF retryI + 1 < maxRetries THEN "fn" ELSE "thrown"
    /\ retryOutcome' = IF retryI + 1 < maxRetries THEN retryOutcome
                       ELSE Rejected([api |-> FALSE, status |-> 0])
    /\ UNCHANGED <<USE_RETRY_LOGIC, maxRetries, initialDelay, attempts, delays>>
    /\ RetryOnly

\* =========================================================================
\* sourceVendors (services/vendorSourcing.ts) behind POST /api/source-vendors
\* =========================================================================
MaxComponents == 2

\* values of process.env.ANTHROPIC_API_KEY; "" is the unset variable
ApiKeys == {"", "sk-ant", "key"}

\* lines 65-71
KeyAccepted(key) == key # "" /\ key \in {"sk-ant"}

\* request.components: the endpoint has checked a non-empty array (index.ts 80)
RequestedComponents ==
    {c \in SeqsUpTo({Component("motor", 2), Component("plate", 1)}, MaxComponents) :
        c # <<>>}

\* a model reply is the content block of the message: its type and the lines
\* of its text; <fence> stands for the three backquotes of a code fence
TextBlock(lines) == [type |-> "text", lines |-> lines]

ModelContents ==
    { TextBlock(<<"{result}">>),
      TextBlock(<<"<fence>json", "{result}", "<fence>">>),
      TextBlock(<<"{norange}">>),
      TextBlock(<<"{contacts}">>),
      TextBlock(<<"{novendors}">>),
      TextBlock(<<"Here are the vendors:", "{result}">>),
      TextBlock(<<"<fence>json", "{result}">>),
      [type |-> "tool_use", lines |-> <<>>] }

\* lines 232-235: a line that starts with a code fence
IsFence(line) == line \in {"<fence>", "<fence>json"}

FenceAfter(lines, start) == {k \in DOMAIN lines : k > start /\ IsFence(lines[k])}

MinOf(S) == CHOOSE k \in S : \A m \in S : k <= m
MaxOf(S) == CHOOSE k \in S : \A m \in S : k >= m

\* lines 229-239: the lines between the opening fence and the next one
StripFences(lines) ==
    IF lines # <<>> /\ IsFence(lines[1]) /\ FenceAfter(lines, 1) # {}
    THEN SubSeq(lines, 2, MinOf(FenceAfter(lines, 1)) - 1)
    ELSE lines

\* JSON.parse of the joined lines: one JSON document, or a SyntaxError
JsonDocuments == {"{result}", "{norange}", "{contacts}", "{novendors}"}
JsonParses(lines) == Len(lines) = 1 /\ lines[1] \in JsonDocuments

JsonValue(doc) ==
    CASE doc = "{result}" ->
           [componentName |-> "part",
            vendors |-> <<Vendor("Acme", 10, 5), Vendor("TechParts", 8, 0)>>,
            totalCostRange |-> [min |-> 20, max |-> 30]]
      [] doc = "{norange}" ->
           [componentName |-> "part",
            vendors |-> <<Vendor("Acme", 10, 5), Vendor("TechParts", 8, 0)>>]
      [] doc = "{contacts}" ->
           [componentName |-> "part",
            vendors |-> <<[name |-> "TechParts", pricePerUnit |-> 8, shipping |-> 0,
                           email |-> "sales@acme.example"],
                          [name |-> "Acme", pricePerUnit |-> 10, shipping |-> 5,
                           email |-> "info@acme.example",
                           websiteUrl |-> "https://acme.example"]>>,
            totalCostRange |-> [min |-> 16, max |-> 25]]
      [] OTHER -> [componentName |-> "part"]

\* line 252
VendorCost(v, quantity) == v.pricePerUnit * quantity + v.shipping

\* lines 251-257, for a non-empty vendor list
CostRange(vendors, quantity) ==
    [min |-> MinOf({VendorCost(vendors[k], quantity) : k \in DOMAIN vendors}),
     max |-> MaxOf({VendorCost(vendors[k], quantity) : k \in DOMAIN vendors})]

WithCostRange(result, quantity) ==
    IF "totalCostRange" \in DOMAIN result
    THEN result
    ELSE [componentName |-> result.componentName,
          vendors |-> result.vendors,
          totalCostRange |-> CostRange(result.vendors, quantity)]

SearchError(message) == [ok |-> FALSE, message |-> message]

\* lines 242-264: parse, validate, complete
ParsedSearch(lines, quantity) ==
    IF ~JsonParses(lines)
    THEN SearchError("Failed to parse vendor search response: Unexpected token")
    ELSE IF "vendors" \notin DOMAIN JsonValue(lines[1])
    THEN SearchError("Failed to parse vendor search response: Invalid response structure from vendor search")
    ELSE [ok |-> TRUE, value |-> WithCostRange(JsonValue(lines[1]), quantity)]

\* lines 222-264: what searchVendorsForComponent makes of the model's reply
SearchResult(content, component) ==
    IF content.type # "text"
    THEN SearchError("Unexpected response type from Anthropic API")
    ELSE ParsedSearch(StripFences(content.lines), component.quantity)

ModelCall(i, state) == [component |-> i, variant |-> "basic", state |-> state]

\* mutant: the searches of all remaining components are started together
StartSearch_all(calls, i) ==
    calls \o [k \in 1..(Len(svcComponents) - i + 1) |-> ModelCall(i + k - 1, "pending")]

\* lines 90 and 210: searchVendorsForComponent for component i calls the model;
\* the function reads no feature flag, the prompt is the original one
StartSearch(calls, i) == Append(calls, ModelCall(i, "pending"))

EndSearch(calls, state) ==
    [calls EXCEPT ![Len(calls)] = ModelCall(calls[Len(calls)].component, state)]

FailedBody(message) == [error |-> "Failed to source vendors", message |-> message]

\* lines 106-119; the insights are derived from the same searches
SourcingResult(searches) ==
    [componentSearches |-> searches,
     totalEstimatedCost |->
        [min |-> SumSeq([k \in DOMAIN searches |-> searches[k].totalCostRange.min]),
         max |-> SumSeq([k \in DOMAIN searches |-> searches[k].totalCostRange.max])]]

SvcOnly == UNCHANGED <<srvVars, uiVars, retryVars, fcVars, walletTransfers>>
SvcEnv == UNCHANGED <<USE_FIRECRAWL, USE_STRUCTURED_OUTPUTS, ANTHROPIC_API_KEY, svcComponents>>

\* no sourcing request
SvcIdle ==
    /\ USE_FIRECRAWL = ""
    /\ USE_STRUCTURED_OUTPUTS = ""
    /\ ANTHROPIC_API_KEY = "sk-ant"
    /\ svcComponents = <<Component("motor", 2)>>
    /\ svcPc = "idle"
    /\ svcI = 1
    /\ componentSearches = <<>>
    /\ modelCalls = <<>>
    /\ svcStatus = 0
    /\ svcBody = Missing

\* index.ts 92-100 and sourceVendors 61-90: the key is checked and the search
\* of the first component begins
SourceVendorsCalled ==
    /\ svcPc = "idle"
    /\ IF KeyAccepted(ANTHROPIC_API_KEY)
       THEN /\ svcPc' = "searching"
            /\ modelCalls' = StartSearch(modelCalls, 1)
            /\ UNCHANGED <<svcStatus, svcBody>>
       ELSE /\ svcPc' = "responded"
            /\ svcStatus' = 500
            /\ svcBody' = FailedBody("ANTHROPIC_API_KEY")
            /\ UNCHANGED modelCalls
    /\ UNCHANGED <<svcI, componentSearches>>
    /\ SvcEnv
    /\ SvcOnly

\* lines 97-119 and index.ts 106: the result is pushed, and either the next
\* component is searched or the response is sent
SearchSucceeded(result) ==
    /\ componentSearches' = Append(componentSearches, result)
    /\ IF svcI < Len(svcComponents)
       THEN /\ svcI' = svcI + 1
            /\ modelCalls' = StartSearch(EndSearch(modelCalls, "done"), svcI + 1)
            /\ UNCHANGED <<svcPc, svcStatus, svcBody>>
       ELSE /\ modelCalls' = EndSearch(modelCalls, "done")
            /\ svcPc' = "responded"
            /\ svcStatus' = 200
            /\ svcBody' = SourcingResult(Append(componentSearches, result))
            /\ UNCHANGED svcI

\* mutant: a failed search is skipped and the loop goes on
SearchFailed_skipped(message) ==
    /\ UNCHANGED componentSearches
    /\ IF svcI < Len(svcComponents)
       THEN /\ svcI' = svcI + 1
            /\ modelCalls' = StartSearch(EndSearch(modelCalls, "failed"), svcI + 1)
            /\ UNCHANGED <<svcPc, svcStatus, svcBody>>
       ELSE /\ modelCalls' = EndSearch(modelCalls, "failed")
            /\ svcPc' = "responded"
            /\ svcStatus' = 200
            /\ svcBody' = SourcingResult(componentSearches)
            /\ UNCHANGED svcI

\* lines 99-102 and index.ts 107-113: the error is thrown on and answered
SearchFailed(message) ==
    /\ modelCalls' = EndSearch(modelCalls, "failed")
    /\ svcPc' = "responded"
    /\ svcStatus' = 500
    /\ svcBody' = FailedBody(message)
    /\ UNCHANGED <<svcI, componentSearches>>

SearchEnds(outcome) ==
    IF outcome.ok THEN SearchSucceeded(outcome.value) ELSE SearchFailed(outcome.message)

\* anthropic.messages.create resolves (line 210)
ModelReplies(content) ==
    /\ svcPc = "searching"
    /\ SearchEnds(SearchResult(content, svcComponents[svcI]))
    /\ SvcEnv
    /\ SvcOnly

\* anthropic.messages.create rejects: the basic search has no retry
ModelRejects(e) ==
    /\ svcPc = "searching"
    /\ SearchFailed(IF e.api THEN "API error" ELSE "Connection error")
    /\ SvcEnv
    /\ SvcOnly

\* =========================================================================
\* searchVendorsForComponentWithFirecrawl (services/vendorSourcingWithFirecrawl.ts)
\* with findVendorUrls and scrapeVendorWebsite (services/firecrawlService.ts)
\* =========================================================================
\* the component searched
FcComponent == Component("motor", 2)

Candidate(n, url) == [name |-> n, websiteUrl |-> url]

\* replies of the model to the URL prompt
UrlContents ==
    { TextBlock(<<"[urls]">>),
      TextBlock(<<"<fence>json", "[nourl]", "<fence>">>),
      TextBlock(<<"[]">>),
      TextBlock(<<"{result}">>),
      TextBlock(<<"I found these vendors:">>),
      [type |-> "tool_use", lines |-> <<>>] }

UrlDocuments == {"[urls]", "[nourl]", "[]"}

UrlValue(doc) ==
    CASE doc = "[urls]" ->
           <<Candidate("Acme", "https://acme.example"),
             Candidate("TechParts", "https://techparts.example")>>
      [] doc = "[nourl]" ->
           <<Candidate("Acme", ""), Candidate("TechParts", "https://techparts.example")>>
      [] OTHER -> <<>>

HasUrlAndName(v) == v.websiteUrl # "" /\ v.name # ""

\* part_016 163-169: the parsed array filtered, or [] when JSON.parse or the
\* filter throws
ParsedUrls(lines) ==
    IF Len(lines) = 1 /\ lines[1] \in UrlDocuments
    THEN SelectSeq(UrlValue(lines[1]), HasUrlAndName)
    ELSE <<>>

\* what a scrape can resolve with (part_016 87-92)
ScrapedPages ==
    { [markdown |-> "Contact us", extracted |-> [emails |-> <<"sales@acme.example">>]],
      [markdown |-> "", extracted |-> Missing] }

SettledScrapes ==
    {[state |-> "fulfilled", page |-> p] : p \in ScrapedPages}
        \cup {[state |-> "rejected", page |-> Missing], [state |-> "timeout", page |-> Missing]}

PendingScrape == [state |-> "pending", page |-> Missing]

\* lines 114-124: the value of a fulfilled scrape with the candidate's name
\* and url, null for a rejected one
ScrapedEntry(scrape, candidate) ==
    IF scrape.state = "fulfilled"
    THEN [markdown |-> scrape.page.markdown, extracted |-> scrape.page.extracted,
          vendorName |-> candidate.name, url |-> candidate.websiteUrl]
    ELSE Null

ScrapedEntries(all, candidates) ==
    [k \in DOMAIN all |-> ScrapedEntry(all[k], candidates[k])]

AllSettled(all) == \A k \in DOMAIN all : all[k].state # "pending"

With(rec, key, val) == [x \in DOMAIN rec \cup {key} |-> IF x = key THEN val ELSE rec[x]]

\* lines 277-279
WithWebsiteUrl(vendor, scraped) ==
    IF "websiteUrl" \in DOMAIN vendor /\ vendor.websiteUrl # ""
    THEN vendor
    ELSE With(vendor, "websiteUrl", scraped.url)

\* lines 281-283
WithEmailExtracted(vendor, scraped) ==
    IF /\ scraped.extracted # Missing
       /\ Len(scraped.extracted.emails) > 0
       /\ "email" \in DOMAIN vendor
       /\ vendor.email # ""
    THEN With(vendor, "emailExtracted", vendor.email \in Range(scraped.extracted.emails))
    ELSE vendor

\* lines 273-285: the vendor at an index takes the scraped data at that index
MergedVendor(vendor, idx, scraped) ==
    IF idx \in DOMAIN scraped /\ scraped[idx] # Null
    THEN WithEmailExtracted(WithWebsiteUrl(vendor, scraped[idx]), scraped[idx])
    ELSE vendor

MergedResult(result, scraped) ==
    [result EXCEPT !.vendors =
        [idx \in DOMAIN result.vendors |-> MergedVendor(result.vendors[idx], idx, scraped)]]

FcOnly == UNCHANGED <<srvVars, uiVars, svcVars, walletTransfers>>

\* nothing has called the Firecrawl search
FcIdle ==
    /\ FIRECRAWL_API_KEY = ""
    /\ fcPc = "idle"
    /\ vendorUrls = <<>>
    /\ scrapes = <<>>
    /\ scrapedData = <<>>
    /\ discovery = "none"
    /\ fcResult = NoOutcome

\* mutant: no try around the discovery
DiscoveryThrew_uncaught(message) ==
    /\ discovery' = "threw"
    /\ fcPc' = "failed"
    /\ fcResult' = SearchError(message)
    /\ UNCHANGED <<FIRECRAWL_API_KEY, vendorUrls, scrapes, scrapedData>>

\* lines 127-129: the catch logs, and the search goes on with no urls and no
\* scraped data
DiscoveryThrew(message) ==
    /\ discovery' = "threw"
    /\ fcPc' = "mainCall"
    /\ UNCHANGED <<FIRECRAWL_API_KEY, vendorUrls, scrapes, scrapedData, fcResult>>

\* lines 99-113: the candidates are stored; with candidates, every scrape is
\* started, each raced with a 30 s timer
UrlsFound(candidates) ==
    /\ vendorUrls' = candidates
    /\ discovery' = "returned"
    /\ IF candidates = <<>>
       THEN fcPc' = "mainCall" /\ UNCHANGED scrapes
       ELSE fcPc' = "scraping" /\ scrapes' = [k \in DOMAIN candidates |-> PendingScrape]
    /\ UNCHANGED <<FIRECRAWL_API_KEY, scrapedData, fcResult>>

\* lines 84-99 and part_016 102-145: findVendorUrls checks the key and calls
\* the model
SearchWithFirecrawlCalled ==
    /\ fcPc = "idle"
    /\ IF ANTHROPIC_API_KEY = ""
       THEN DiscoveryThrew("ANTHROPIC_API_KEY environment variable is not set")
       ELSE /\ fcPc' = "findingUrls"
            /\ UNCHANGED <<FIRECRAWL_API_KEY, vendorUrls, scrapes, scrapedData, discovery,
                           fcResult>>
    /\ UNCHANGED <<svcVars, retryVars, srvVars, uiVars, walletTransfers>>

\* part_016 140-169: the model replies to the URL prompt
UrlsReply(content) ==
    /\ fcPc = "findingUrls"
    /\ IF content.type # "text"
       THEN DiscoveryThrew("Unexpected response type from Anthropic API")
       ELSE UrlsFound(ParsedUrls(StripFences(content.lines)))
    /\ UNCHANGED <<svcVars, retryVars, srvVars, uiVars, walletTransfers>>

\* part_016 140: the call of the URL prompt rejects
UrlsRejects(e) ==
    /\ fcPc = "findingUrls"
    /\ DiscoveryThrew(IF e.api THEN "API error" ELSE "Connection error")
    /\ UNCHANGED <<svcVars, retryVars, srvVars, uiVars, walletTransfers>>

\* the scrapes as they are after scrape k settled
SettledAt(k, outcome) == [scrapes EXCEPT ![k] = outcome]

\* lines 105-125: one raced scrape settles (part_016 35-97 fulfils or rejects,
\* without FIRECRAWL_API_KEY it rejects; the timer rejects after 30 s); when
\* all have settled, allSettled resolves and scrapedData is built
ScrapeSettles(k, outcome) ==
    /\ fcPc = "scraping"
    /\ k \in DOMAIN scrapes
    /\ scrapes[k].state = "pending"
    /\ outcome.state = "fulfilled" => FIRECRAWL_API_KEY # ""
    /\ scrapes' = SettledAt(k, outcome)
    /\ IF AllSettled(SettledAt(k, outcome))
       THEN /\ scrapedData' = ScrapedEntries(SettledAt(k, outcome), vendorUrls)
            /\ fcPc' = "mainCall"
       ELSE UNCHANGED <<scrapedData, fcPc>>
    /\ UNCHANGED <<FIRECRAWL_API_KEY, vendorUrls, discovery, fcResult>>
    /\ UNCHANGED <<svcVars, retryVars, srvVars, uiVars, walletTransfers>>

\* line 233: withRetry(makeRequest)
MainCallBegins ==
    /\ fcPc = "mainCall"
    /\ WithRetry

\* lines 235-292 after withRetry returned, or its error leaving the function
MainCallEnded(outcome) ==
    /\ fcPc' = IF outcome.ok THEN "returned" ELSE "failed"
    /\ fcResult' = IF outcome.ok
                   THEN [ok |-> TRUE, value |-> MergedResult(outcome.value, scrapedData)]
                   ELSE outcome

MainCallEnds ==
    /\ fcPc = "mainCall"
    /\ RetryEnded
    /\ IF retryOutcome.ok
       THEN MainCallEnded(SearchResult(retryOutcome.value, FcComponent))
       ELSE MainCallEnded(SearchError(IF retryOutcome.error.api THEN "API error"
                                      ELSE "Connection error"))
    /\ UNCHANGED <<FIRECRAWL_API_KEY, vendorUrls, scrapes, scrapedData, discovery>>
    /\ UNCHANGED <<svcVars, retryVars, srvVars, uiVars, walletTransfers>>

\* the utilities and services at rest
LibIdle == RetryIdle /\ SvcIdle /\ FcIdle /\ walletTransfers = <<>>

\* =========================================================================
\* Specifications
\* =========================================================================
\* the server at rest with every key configured
ServerAtRest ==
    /\ env = [LOCUS_API_KEY |-> TRUE, ANTHROPIC_API_KEY |-> TRUE, USE_RETRY_LOGIC |-> FALSE]
    /\ srvPc = "idle"
    /\ endpoint = ""
    /\ body = NoBody
    /\ services = {}
    /\ transfers = <<>>
    /\ toolResult = Null
    /\ transactionHash = Null
    /\ nMessages = 0
    /\ paymentResult = Pending
    /\ resStatus = 0
    /\ resBody = NoBody

SrvInit ==
    /\ env \in [LOCUS_API_KEY : BOOLEAN, ANTHROPIC_API_KEY : BOOLEAN,
                USE_RETRY_LOGIC : BOOLEAN]
    /\ srvPc = "idle"
    /\ endpoint = ""
    /\ body = NoBody
    /\ services = {}
    /\ transfers = <<>>
    /\ toolResult = Null
    /\ transactionHash = Null
    /\ nMessages = 0
    /\ paymentResult = Pending
    /\ resStatus = 0
    /\ resBody = NoBody
    /\ PageLoaded(FALSE)
    /\ LibIdle

SrvNext ==
    \/ \E b \in PaymentBodies : PostExecutePayment(b)
    \/ PaymentContextReturns
    \/ \E e \in ThrownErrors : PaymentContextThrows(e)
    \/ \E r \in ResultValues : SendToolResult(r)
    \/ \E r \in ResultValues : SendResult(r)
    \/ SendErrorDuringExecution
    \/ \E e \in ThrownErrors : SendThrows(e)
    \/ SendStreamEnds
    \/ \E b \in SourcingBodies : PostSourceVendors(b)
    \/ \E b \in EmailBodies : PostSendEmail(b)
    \/ \E b \in UploadBodies : PostUploadDesign(b)
    \/ \E ok \in BOOLEAN : ServiceReturns(ok)

SpecServer == SrvInit /\ [][SrvNext]_vars

\* ---- navigation and the data handed from screen to screen
InitApp ==
    /\ ServerAtRest
    /\ LibIdle
    /\ \E test \in BOOLEAN : PageLoaded(test)

NextApp ==
    \/ TestModeEffect
    \/ onGetStarted
    \/ \E item \in Range(NavItems) : onNavigate(item)
    \/ handleFileSelect
    \/ \E r \in UploadsWithoutEstimate : UploadResolves(r)
    \/ UploadRejects
    \/ onUploadComplete
    \/ \E key \in PriorityKeys : togglePriority(key)
    \/ \E i \in DOMAIN editableComponents : deleteComponent(i)
    \/ \E value \in TypedNumbers : handleSpendingLimitChange(value)
    \/ handleContinue
    \/ \E lists \in SeqsUpTo(VendorLists, Len(extractedComponents)) : SourceVendorsResolves(lists)
    \/ SourceVendorsRejects
    \/ retry
    \/ onContinue
    \/ handlePlanGenerated
    \/ handleApprove
    \/ onBack

SpecApp == InitApp /\ [][NextApp]_vars

\* ---- from the landing page through the upload to the priorities screen
InitPriorities ==
    /\ ServerAtRest
    /\ LibIdle
    /\ PageLoaded(FALSE)

NextPriorities ==
    \/ onGetStarted
    \/ handleFileSelect
    \/ \E r \in UploadResponses : UploadResolves(r)
    \/ UploadRejects
    \/ onUploadComplete
    \/ \E key \in PriorityKeys : togglePriority(key)
    \/ \E i \in DOMAIN editableComponents, delta \in {-1, 1} : updateQuantity(i, delta)
    \/ \E i \in DOMAIN editableComponents, value \in TypedNumbers : setQuantity(i, value)
    \/ \E i \in DOMAIN editableComponents : deleteComponent(i)
    \/ \E value \in TypedNumbers : handleSpendingLimitChange(value)
    \/ handleContinue

SpecPriorities == InitPriorities /\ [][NextPriorities]_vars

\* ---- from the test-mode page through sourcing to the procurement plan
InitPlan ==
    /\ ServerAtRest
    /\ LibIdle
    /\ PageLoaded(TRUE)

NextPlan ==
    \/ TestModeEffect
    \/ \E lists \in SeqsUpTo(VendorLists, Len(extractedComponents)) : SourceVendorsResolves(lists)
    \/ SourceVendorsRejects
    \/ retry
    \/ \E c \in ComponentNames, v \in Vendors : selectVendor(c, v)
    \/ onContinue
    \/ handlePlanGenerated
    \/ \E i \in DOMAIN procurementPlan, value \in TypedNumbers :
          ProcurementPlan_updateQuantity(i, value)
    \/ \E i \in DOMAIN procurementPlan, v \in Vendors : updateVendor(i, v)
    \/ handleApprove
    \/ onBack

SpecPlan == InitPlan /\ [][NextPlan]_vars

\* ---- from the test-mode page to the approval screen and the payment
InitApproval ==
    /\ ServerAtRest
    /\ LibIdle
    /\ PageLoaded(TRUE)

NextApproval ==
    \/ TestModeEffect
    \/ \E lists \in SeqsUpTo(VendorLists, Len(extractedComponents)) : SourceVendorsResolves(lists)
    \/ onContinue
    \/ handlePlanGenerated
    \/ handleApprove
    \/ onBack
    \/ \E key \in DOMAIN NoConfirmations : setConfirmations(key)
    \/ handleExecute
    \/ \E i \in DOMAIN execs : StepTimer(i)
    \/ \E i \in DOMAIN execs, outcome \in PaymentOutcomes : PaymentReturns(i, outcome)
    \/ \E i \in DOMAIN execs : HashTimer(i)
    \/ \E i \in DOMAIN execs : LogTimer(i)
    \/ \E i \in DOMAIN execs : onExecute(i)
    \/ \E i \in DOMAIN execs : CrmTimer(i)
    \/ tryAgain

SpecApproval == InitApproval /\ [][NextApproval]_vars

\* the timers of the browser fire, and a payment request that was sent is
\* answered or fails (the server answers on every path of its handler)
FairApproval ==
    /\ WF_vars(\E i \in DOMAIN execs : StepTimer(i))
    /\ WF_vars(\E i \in DOMAIN execs, outcome \in PaymentOutcomes : PaymentReturns(i, outcome))
    /\ WF_vars(\E i \in DOMAIN execs : HashTimer(i))
    /\ WF_vars(\E i \in DOMAIN execs : LogTimer(i))
    /\ WF_vars(\E i \in DOMAIN execs : onExecute(i))
    /\ WF_vars(\E i \in DOMAIN execs : CrmTimer(i))

SpecApprovalFair == SpecApproval /\ FairApproval

\* ---- one call of withRetry with any flag value and parameters
InitRetry ==
    /\ ServerAtRest
    /\ PageLoaded(FALSE)
    /\ USE_RETRY_LOGIC \in FlagValues
    /\ maxRetries \in 0..MaxRetries
    /\ initialDelay \in {DefaultInitialDelay, 250}
    /\ retryPc = "idle"
    /\ retryI = 0
    /\ attempts = <<>>
    /\ delays = <<>>
    /\ retryOutcome = NoOutcome
    /\ SvcIdle
    /\ FcIdle
    /\ walletTransfers = <<>>

NextRetry ==
    \/ WithRetry
    \/ \E v \in FnValues : FnResolves(v)
    \/ \E e \in ThrownErrors : FnRejects(e)
    \/ DelayEnds

SpecRetry == InitRetry /\ [][NextRetry]_vars

\* ---- one sourcing request with any flags, key and components
InitSourcing ==
    /\ ServerAtRest
    /\ PageLoaded(FALSE)
    /\ RetryIdle
    /\ USE_FIRECRAWL \in FlagValues
    /\ USE_STRUCTURED_OUTPUTS \in {"", "true"}
    /\ ANTHROPIC_API_KEY \in ApiKeys
    /\ svcComponents \in RequestedComponents
    /\ svcPc = "idle"
    /\ svcI = 1
    /\ componentSearches = <<>>
    /\ modelCalls = <<>>
    /\ svcStatus = 0
    /\ svcBody = Missing
    /\ FcIdle
    /\ walletTransfers = <<>>

NextSourcing ==
    \/ SourceVendorsCalled
    \/ \E content \in ModelContents : ModelReplies(content)
    \/ \E e \in ThrownErrors : ModelRejects(e)

SpecSourcing == InitSourcing /\ [][NextSourcing]_vars

\* ---- one direct call of the Firecrawl search with any keys and retry flag
InitFirecrawl ==
    /\ ServerAtRest
    /\ PageLoaded(FALSE)
    /\ USE_RETRY_LOGIC \in {"", "true"}
    /\ maxRetries = DefaultMaxRetries
    /\ initialDelay = DefaultInitialDelay
    /\ retryPc = "idle"
    /\ retryI = 0
    /\ attempts = <<>>
    /\ delays = <<>>
    /\ retryOutcome = NoOutcome
    /\ USE_FIRECRAWL = "true"
    /\ USE_STRUCTURED_OUTPUTS = ""
    /\ ANTHROPIC_API_KEY \in {"", "sk-ant"}
    /\ svcComponents = <<FcComponent>>
    /\ svcPc = "idle"
    /\ svcI = 1
    /\ componentSearches = <<>>
    /\ modelCalls = <<>>
    /\ svcStatus = 0
    /\ svcBody = Missing
    /\ FIRECRAWL_API_KEY \in {"", "fc-key"}
    /\ fcPc = "idle"
    /\ vendorUrls = <<>>
    /\ scrapes = <<>>
    /\ scrapedData = <<>>
    /\ discovery = "none"
    /\ fcResult = NoOutcome
    /\ walletTransfers = <<>>

NextFirecrawl ==
    \/ SearchWithFirecrawlCalled
    \/ \E content \in UrlContents : UrlsReply(content)
    \/ \E e \in ThrownErrors : UrlsRejects(e)
    \/ \E k \in 1..2, outcome \in SettledScrapes : ScrapeSettles(k, outcome)
    \/ MainCallBegins
    \/ \E content \in ModelContents : FnResolves(content)
    \/ \E e \in ThrownErrors : FnRejects(e)
    \/ DelayEnds
    \/ MainCallEnds

SpecFirecrawl == InitFirecrawl /\ [][NextFirecrawl]_vars

\* =========================================================================
\* Properties of the server (SpecServer)
\* =========================================================================
IsPayment == endpoint = "/api/execute-payment"

\* C1: within one POST /api/execute-payment request at most one
\* send_to_address request is issued, whatever USE_RETRY_LOGIC is set to
\* and whatever error ends the request
C1_AtMostOneTransfer == Len(transfers) <= 1

\* a request that sent its transfer and then failed, with retries enabled
C1_Witness ==
    /\ IsPayment /\ srvPc = "done" /\ resStatus = 500
    /\ env.USE_RETRY_LOGIC
    /\ Len(transfers) = 1

\* C2: POST /api/execute-payment answers 200 only for a successful
\* PaymentResult, and the body then has success = true and a non-empty list
\* of transaction hashes; every failed or thrown payment is answered 500
\* with an error description
C2_StatusMatchesResult ==
    (IsPayment /\ srvPc = "done") =>
        /\ resStatus = 200 =>
              /\ paymentResult # Pending
              /\ "success" \in DOMAIN paymentResult
              /\ paymentResult.success
              /\ resBody = paymentResult
              /\ Len(resBody.transactionHashes) >= 1
              /\ \A i \in DOMAIN resBody.transactionHashes :
                     ~Falsy(resBody.transactionHashes[i])
        /\ ("threw" \in DOMAIN paymentResult
              \/ ("success" \in DOMAIN paymentResult /\ ~paymentResult.success)) =>
              /\ resStatus = 500
              /\ "error" \in DOMAIN resBody
              /\ DOMAIN resBody \cap {"details", "message"} # {}
        /\ ~env.LOCUS_API_KEY \/ ~env.ANTHROPIC_API_KEY => resStatus \in {400, 500}

\* a payment that failed after its transfer was requested, answered 500
C2_Witness ==
    /\ IsPayment /\ srvPc = "done" /\ resStatus = 500
    /\ "success" \in DOMAIN paymentResult /\ ~paymentResult.success
    /\ Len(transfers) = 1

\* what the claim calls a missing or malformed field, per route
BadPlan(b) == b.plan.t \in {"undefined", "null"} \/ b.plan.t # "array" \/ b.plan.v = <<>>
BadSourcing(b) ==
    \/ b.components.t # "array" \/ b.components.v = <<>>
    \/ b.spendingLimit.t # "number" \/ b.spendingLimit.v <= 0
    \/ b.priorities.t \in {"undefined", "null", "string", "number"}
BadEmail(b) ==
    \/ b.to.t # "array" \/ b.to.v = <<>>
    \/ \E f \in {"subject", "textPart", "htmlPart"} : b[f].t = "undefined" \/ b[f].v = <<>>
BadUpload(b) == b.file.t = "undefined"

BadRequest ==
    CASE endpoint = "/api/execute-payment" -> BadPlan(body)
      [] endpoint = "/api/source-vendors" -> BadSourcing(body)
      [] endpoint = "/api/send-email" -> BadEmail(body)
      [] endpoint = "/api/upload-design" -> BadUpload(body)
      [] OTHER -> FALSE

DistinctVendorNames(plan) ==
    Cardinality({v \in Vendors : \E i \in DOMAIN plan : plan[i].vendor = v})

\* C4: a successful payment execution has sent exactly one transfer, to the
\* test wallet, of 0.01 USDC (one cent) per distinct vendor name of the plan
C4_TestTransfer ==
    /\ \A i \in DOMAIN transfers :
          /\ transfers[i].address = "0x8527a8f999edac78f3bd40f706a1554a0e602858"
          /\ transfers[i].amount = DistinctVendorNames(body.plan.v)
    /\ (IsPayment /\ srvPc = "done" /\ resStatus = 200) => Len(transfers) = 1

\* a paid plan of two items of one vendor at different prices: one cent
C4_Witness ==
    /\ IsPayment /\ srvPc = "done" /\ resStatus = 200
    /\ Len(body.plan.v) = 2
    /\ body.plan.v[1].vendor = body.plan.v[2].vendor
    /\ body.plan.v[1].pricePerUnit # body.plan.v[2].pricePerUnit
    /\ transfers = <<[address |-> TEST_WALLET_ADDRESS, amount |-> 1, vendors |-> 1]>>


\* =========================================================================
\* Properties of the front end
\* =========================================================================
ApprovalStays == currentScreen = "approval" /\ currentScreen' = "approval"

\* C5 as stated: while the approval screen is displayed the step index only
\* advances, no execution ends in "failed" and "idle" is never entered again.
C5_LinearOnlySuccess ==
    [][ApprovalStays =>
          /\ executionStep' \in {executionStep, executionStep + 1}
          /\ status' # "failed"
          /\ status # "idle" => status' # "idle"]_vars

\* C5, amended: while the approval screen is displayed the step index stays
\* in 0..5 and changes only by one step forward during processing or back to
\* 0 by Try Again; the status changes only idle -> processing, processing ->
\* success at step 5, processing -> failed at step 3 (the payment call), and
\* failed -> idle (Try Again).
C5_StepMachine ==
    [][ApprovalStays =>
          /\ executionStep' \in 0..5
          /\ executionStep' # executionStep =>
                \/ status = "processing" /\ status' = "processing"
                      /\ executionStep' = executionStep + 1
                \/ status = "failed" /\ status' = "idle" /\ executionStep' = 0
          /\ status' # status =>
                \/ status = "idle" /\ status' = "processing" /\ executionStep' = 0
                \/ status = "processing" /\ status' = "success" /\ executionStep = 5
                \/ status = "processing" /\ status' = "failed" /\ executionStep = 3
                \/ status = "failed" /\ status' = "idle"]_vars

C5_Witness ==
    /\ currentScreen = "approval"
    /\ status = "success"
    /\ executionStep = 5
    /\ shownHash \in TxHashes

ChosenPriorities(p) == p # Null /\ \E k \in PriorityKeys : p[k]

\* C6 as stated: the data each displayed screen depends on is present.
C6_DependenciesSatisfied ==
    /\ currentScreen = "sourcing" =>
          /\ extractedComponents # <<>>
          /\ spendingLimit > 0
          /\ ChosenPriorities(priorities)
    /\ currentScreen \in {"rfq", "procurement"} =>
          /\ sourcingData # Null
          /\ \E n \in ComponentNames : selectedVendors[n] # ""
    /\ currentScreen = "approval" => procurementPlan # <<>>

\* C6, amended: a screen entered by the Continue action of the screen before
\* it (or, for Sourcing, by the URL test mode) has these data: Sourcing has
\* components and at least one chosen priority, RFQ has sourcing results,
\* Procurement has sourcing results and components. However the Sourcing
\* screen was entered, it requests or shows vendors only with components and
\* a positive spending limit.
C6_ForwardDependencies ==
    /\ currentScreen = "sourcing" /\ navVia \in {"continue", "test"} =>
          /\ extractedComponents # <<>>
          /\ ChosenPriorities(priorities)
    /\ currentScreen = "sourcing" /\ (loading \/ srcSourcingData # Null) =>
          /\ extractedComponents # <<>>
          /\ spendingLimit > 0
    /\ currentScreen = "rfq" /\ navVia = "continue" => sourcingData # Null
    /\ currentScreen = "procurement" /\ navVia = "continue" =>
          /\ sourcingData # Null
          /\ extractedComponents # <<>>

C6_Witness ==
    /\ currentScreen = "procurement"
    /\ navVia = "continue"
    /\ procurementPlan # <<>>
    /\ ~testMode
    /\ bomEstimate = Null
    /\ Len(extractedComponents) = 1

\* the order Landing, Upload, Priorities, Sourcing, RFQ, Procurement, Approval, CRM
ScreenOrder == <<"landing">> \o NavItems
IsSuccessor(from, to) ==
    \E i \in 1..(Len(ScreenOrder) - 1) : ScreenOrder[i] = from /\ ScreenOrder[i + 1] = to

\* C7 as stated: the screen changes only to its immediate successor.
C7_LinearOrder ==
    [][currentScreen' # currentScreen => IsSuccessor(currentScreen, currentScreen')]_vars

\* C7, amended: the Continue actions change the screen to its immediate
\* successor; every other change is the sidebar (from any screen but the
\* landing page to any of the seven), Back (Approval to Procurement), the URL
\* test mode (Landing to Sourcing) or the timer after a payment (to CRM).
C7_ContinueMovesForward ==
    [][currentScreen' # currentScreen =>
          \/ navVia' = "continue" /\ IsSuccessor(currentScreen, currentScreen')
          \/ navVia' = "sidebar" /\ currentScreen # "landing"
                /\ currentScreen' \in Range(NavItems)
          \/ navVia' = "back" /\ currentScreen = "approval"
                /\ currentScreen' = "procurement"
          \/ navVia' = "test" /\ currentScreen = "landing" /\ currentScreen' = "sourcing"
          \/ navVia' = "timer" /\ currentScreen' = "crm"]_vars

C7_Witness ==
    /\ currentScreen = "approval"
    /\ navVia = "continue"
    /\ procurementPlan # <<>>
    /\ ~testMode
    /\ priorities # Null /\ priorities.quality /\ ~priorities.cost

\* the shipping cost of the vendor of a plan item, from the sourcing results
ShippingOf(item) ==
    LET searches == sourcingData.componentSearches
        s == CHOOSE i \in DOMAIN searches : searches[i].componentName = item.partName
        v == CHOOSE j \in DOMAIN searches[s].vendors :
                searches[s].vendors[j].name = item.vendor
    IN searches[s].vendors[v].shipping

\* C8 as stated: each item's totalCost is pricePerUnit x quantity plus the
\* shipping of its vendor (the plan total is the sum of the totalCost fields
\* by construction, PlanTotal).
C8_TotalsConsistent ==
    \A i \in DOMAIN procurementPlan :
        procurementPlan[i].totalCost =
            (procurementPlan[i].pricePerUnit * procurementPlan[i].quantity)
                + ShippingOf(procurementPlan[i])

\* C9 as stated: every component and every plan item has an integer
\* quantity of at least 1.
C9_QuantitiesAtLeastOne ==
    /\ \A i \in DOMAIN extractedComponents :
          LET q == ParseInt(extractedComponents[i].quantity)
          IN ~q.nan /\ q.v >= 1
    /\ \A i \in DOMAIN procurementPlan : procurementPlan[i].quantity >= 1

\* the factors of lines 116, 119 and 122 as fractions: 5/4, 23/20, 4/5
FactorNum == [quality |-> 5, speed |-> 23, cost |-> 4]
FactorDen == [quality |-> 4, speed |-> 20, cost |-> 5]

RECURSIVE ProductOver(_, _)
ProductOver(f, S) ==
    IF S = {} THEN 1 ELSE LET k == CHOOSE x \in S : TRUE IN f[k] * ProductOver(f, S \ {k})

Selected == {k \in PriorityKeys : selectedPriorities[k]}

\* C10: with an estimate, the cost multiplier of the priorities screen is
\* the product of the factors of the selected priorities (1 for none), a
\* function of the selected set alone, and every displayed item range is the
\* estimate scaled by it.
C10_MultiplierIsProduct ==
    currentScreen = "priorities" /\ bomEstimate # Null =>
        /\ adjustedRanges.costMultiplier * ProductOver(FactorDen, Selected)
              = 10000 * ProductOver(FactorNum, Selected)
        /\ \A i \in DOMAIN adjustedRanges.itemRanges :
              LET r == adjustedRanges.itemRanges[i]
                  base == ParseIntOr(FindBomItem(bomEstimate, r.componentName).quantity, 1)
                  qty == ParseIntOr(r.quantity, 1)
              IN /\ r.min = Round(r.baseMin * ProductOver(FactorNum, Selected) * qty,
                                  ProductOver(FactorDen, Selected) * base)
                 /\ r.max = Round(r.baseMax * ProductOver(FactorNum, Selected) * qty,
                                  ProductOver(FactorDen, Selected) * base)

C10_Witness ==
    /\ currentScreen = "priorities"
    /\ bomEstimate # Null
    /\ Selected = PriorityKeys
    /\ adjustedRanges.costMultiplier = 11500
    /\ adjustedRanges.itemRanges # <<>>


\* ---- withRetry
RetryEnabled == USE_RETRY_LOGIC = "true"

RetryDefaults ==
    /\ RetryEnabled
    /\ maxRetries = DefaultMaxRetries
    /\ initialDelay = DefaultInitialDelay

LastAttempt == attempts[Len(attempts)]

KeepsFailing ==
    /\ attempts # <<>>
    /\ \A k \in DOMAIN attempts : ~attempts[k].ok /\ Retryable(attempts[k].error)

\* C11: with USE_RETRY_LOGIC=true and the default parameters fn is retried at
\* most 3 times after the first attempt, no more than 3 delays are awaited, and
\* a call that has thrown has thrown the error of its last attempt.
C11_BoundedRetries ==
    RetryDefaults =>
        /\ Len(attempts) - 1 <= DefaultMaxRetries
        /\ Len(delays) <= DefaultMaxRetries
        /\ retryPc = "thrown" => retryOutcome = LastAttempt

C11_Witness ==
    /\ RetryDefaults
    /\ KeepsFailing
    /\ retryPc = "thrown"
    /\ Len(attempts) = DefaultMaxRetries

\* C12 (as stated): with the defaults, a call that kept failing with a
\* retryable error until it was thrown has awaited 1000, 2000 and 4000 ms.
C12_Waits124 ==
    (RetryDefaults /\ KeepsFailing /\ retryPc = "thrown")
        => delays = <<1000, 2000, 4000>>

C14_SingleAttempt ==
    ~RetryEnabled =>
        /\ Len(attempts) <= 1
        /\ delays = <<>>
        /\ RetryEnded => (Len(attempts) = 1 /\ retryOutcome = LastAttempt)

C14_Witness ==
    /\ USE_RETRY_LOGIC = "TRUE"
    /\ retryPc = "thrown"
    /\ Len(attempts) = 1
    /\ Retryable(LastAttempt.error)


\* ---- sourceVendors
PendingCalls == {k \in DOMAIN modelCalls : modelCalls[k].state = "pending"}

\* C15: within one sourcing request the model calls are made in request
\* order, one per component, the call for a component starts only after the
\* calls before it have completed, and at most one is in flight.
C15_OneCallAtATime ==
    /\ Cardinality(PendingCalls) <= 1
    /\ \A k \in DOMAIN modelCalls :
           /\ modelCalls[k].component = k
           /\ k < Len(modelCalls) => modelCalls[k].state = "done"

C15_Witness ==
    /\ Len(modelCalls) = 2
    /\ modelCalls[1].state = "done"
    /\ modelCalls[2].state = "pending"

\* C16: a failed vendor search (the call rejected, a reply that is not text,
\* not JSON or without vendors) is the last search of the request and the
\* request is answered 500 with the error body; a 200 carries the searches of
\* all the components.
C16_FailureFailsRequest ==
    /\ \A k \in DOMAIN modelCalls :
           modelCalls[k].state = "failed" =>
               /\ k = Len(modelCalls)
               /\ svcPc = "responded"
               /\ svcStatus = 500
               /\ DOMAIN svcBody = {"error", "message"}
               /\ svcBody.error = "Failed to source vendors"
    /\ svcStatus = 200 =>
           /\ Len(svcBody.componentSearches) = Len(svcComponents)
           /\ \A k \in DOMAIN modelCalls : modelCalls[k].state = "done"

C16_Witness ==
    /\ Len(svcComponents) = 2
    /\ Len(componentSearches) = 1
    /\ Len(modelCalls) = 2
    /\ modelCalls[2].state = "failed"
    /\ svcStatus = 500

\* the routing FEATURE_FLAGS.md describes
RoutedVariant ==
    IF USE_FIRECRAWL = "true" THEN "firecrawl"
    ELSE IF USE_STRUCTURED_OUTPUTS = "true" THEN "structured"
    ELSE "basic"

\* C17 (as stated): every vendor search of a request runs the variant the
\* flags select: Firecrawl first, then structured outputs, else basic.
C17_RoutedByFlags ==
    \A k \in DOMAIN modelCalls : modelCalls[k].variant = RoutedVariant


\* ---- the Firecrawl search
FailedScrapes == {k \in DOMAIN scrapes : scrapes[k].state \in {"rejected", "timeout"}}

\* the vendors of the main reply as the model gave them
RepliedVendors == SearchResult(retryOutcome.value, FcComponent).value.vendors

\* C18: in the Firecrawl search a failed URL discovery leaves no urls and no
\* scraped data and the search goes on to the main model call; a rejected or
\* timed-out scrape gives a null entry and the others keep their data; the
\* search fails only after its main call has ended; and in the result a vendor
\* whose index has no scraped entry is as the model returned it.
C18_ScrapeFailuresTolerated ==
    /\ discovery = "threw" =>
           /\ vendorUrls = <<>> /\ scrapes = <<>> /\ scrapedData = <<>>
           /\ fcPc \in {"mainCall", "returned", "failed"}
    /\ fcPc = "failed" => (RetryEnded /\ ~fcResult.ok)
    /\ fcPc \in {"mainCall", "returned", "failed"} =>
           /\ AllSettled(scrapes)
           /\ \A k \in DOMAIN scrapedData : scrapedData[k] = Null <=> k \in FailedScrapes
           /\ scrapes # <<>> => DOMAIN scrapedData = DOMAIN scrapes
    /\ fcPc = "returned" =>
           \A idx \in DOMAIN fcResult.value.vendors :
               (idx \notin DOMAIN scrapedData \/ scrapedData[idx] = Null)
                   => fcResult.value.vendors[idx] = RepliedVendors[idx]

C18_Witness ==
    /\ fcPc = "returned"
    /\ Len(scrapes) = 2
    /\ scrapes[1].state = "timeout"
    /\ scrapes[2].state = "fulfilled"
    /\ fcResult.value.vendors[1] = RepliedVendors[1]
    /\ fcResult.value.vendors[2] # RepliedVendors[2]


\* ---- payments of one browser session
\* C19 (as stated): whatever the sequence of Execute, failure and Try Again,
\* at most one transfer is carried out for a plan.
C19_OneTransferPerPlan ==
    \A i, j \in DOMAIN walletTransfers :
        i # j => walletTransfers[i] # walletTransfers[j]

\* the runs of handleExecute that have not reached success or failure
InFlight ==
    {i \in DOMAIN execs :
        execs[i].pc \in {"step0", "step1", "step2", "executePayment", "step4", "step5"}}

\* C20 (as stated): at most one payment execution is in flight at any time.
C20_OneExecutionInFlight == Cardinality(InFlight) <= 1


\* C21: an execution, and with it the payment request it sends, starts only on
\* the idle approval screen with all three confirmations checked; Try Again
\* leaves the confirmations as they were, so this holds for a re-execution.
C21_ConfirmedAtStart ==
    [][Len(execs') > Len(execs) =>
          /\ currentScreen = "approval"
          /\ status = "idle"
          /\ \A k \in DOMAIN confirmations : confirmations[k]]_vars

\* a second execution on the same mounted screen after a failed one
C21_Witness ==
    /\ currentScreen = "approval"
    /\ status = "processing"
    /\ navVia = "continue"
    /\ walletTransfers # <<>>
    /\ Len(execs) = 1
    /\ execs[1].live
    /\ execs[1].pc = "executePayment"
    /\ \A k \in DOMAIN confirmations : confirmations[k]


C23_LeavesProcessing ==
    /\ [][\A i \in DOMAIN execs :
             (execs[i].pc = "executePayment" /\ execs[i].live /\ execs' = Without(execs, i))
                 => (status' = "failed" /\ ~isExecuting')]_vars
    /\ (status = "processing") ~> (status # "processing")

C23_Witness ==
    /\ currentScreen = "approval"
    /\ status = "failed"
    /\ ~isExecuting
    /\ execs = <<>>
    /\ executionStep = 3


WaitingToRecord(h) ==
    \E i \in DOMAIN execs : execs[i].pc = "onExecute" /\ execs[i].txHash = h

Recorded(h) ==
    /\ orders # <<>>
    /\ orders[1].transactionHash = h
    /\ \E i \in DOMAIN execs : execs[i].pc = "crmTimer" /\ execs[i].txHash = h

\* C24: with the timers firing, an execution that has shown success and holds
\* the hash h is followed by a state where the newest order of the list carries
\* h, and an execution that has recorded its order is followed by the CRM
\* screen being shown, whatever else happens in between.
C24_SuccessReachesCrm ==
    /\ \A h \in TxHashes : WaitingToRecord(h) ~> Recorded(h)
    /\ (\E i \in DOMAIN execs : execs[i].pc = "crmTimer") ~> (currentScreen = "crm")

\* the order was recorded and the timer has shown the CRM screen
C24_Witness ==
    /\ currentScreen = "crm"
    /\ navVia = "timer"
    /\ execs = <<>>
    /\ Len(orders) = Len(InitialOrders) + 1
    /\ orders[1].transactionHash \in TxHashes
    /\ walletTransfers # <<>>


\* C25 (as stated): a step never removes or changes an order of the list, and
\* the ids of the list are distinct.
C25_OrdersKept ==
    [][/\ \A k \in DOMAIN orders : orders[k] \in Range(orders')
       /\ \A a, b \in DOMAIN orders' : a # b => orders'[a].id # orders'[b].id]_vars


\* the token of a text that is 0x followed by exactly 64 hexadecimal digits
WellFormedHash == Str(<<"hash">>)

\* C26 (as stated): every transaction hash of a successful payment answer is
\* a well-formed hash.
C26_HashesWellFormed ==
    (IsPayment /\ srvPc = "done" /\ resStatus = 200) =>
        \A i \in DOMAIN resBody.transactionHashes :
            resBody.transactionHashes[i] = WellFormedHash

====
